---- MODULE Spec2Model ----
(***************************************************************************)
(* A model of the goprotoc driver (jhump/goprotoc): the output assembler   *)
(* (app/goprotoc/codegen.go), the plugin executor, the plugin request      *)
(* builders and the argument parser.  Byte strings are sequences of        *)
(* one-character strings, so that the code's index arithmetic is kept.     *)
(***************************************************************************)
EXTENDS Integers, Sequences, FiniteSets, TLC

VARIABLES
    \* ---- output assembler (codegen.go assembleFileOutputs) ----
    locations,   \* lang -> outputLocation
    output,      \* lang -> resp.output.files : (name, insertionPoint) -> list of data
    snippets,    \* number of addSnippet calls made so far
    asm_pc,      \* "gen" | "collect" | "done"
    cur,         \* the response whose ForEach is in progress
    visited,     \* the (lang, key) pairs ForEach has handed to the callback
    results,     \* outputFile -> fileOutput
    asm_out,     \* what assembleFileOutputs returned
    \* ---- plugin executor (codegen.go doCodeGen, runPlugins, executePlugin) ----
    outputs,          \* opts.output: key -> the value of --<key>_out
    pluginDefs,       \* opts.pluginDefs: key -> the path given by --plugin
    inprocessPlugins, \* the keys with a registered in-process plugin
    fs_kind,          \* the file system: path -> "dir" | "file" | "none"
    run_pc,           \* "start" | "plugins" | "done"
    run_args,         \* args of computeOutputLocations: key -> argument string
    run_locs,         \* locations of computeOutputLocations
    req_Args,         \* req.Args of the request all plugins of a run share
    invocations,      \* key -> the handlers invoked for it, in order
    received,         \* key -> the req.Args its handler was given
    failure,          \* the plugin failure that ended the run
    run_err,          \* the message Run wrote to stderr
    run_created,      \* the output locations in which doCodeGen created a file
    \* ---- plugin request builders (part_008 and part_007 toPbRequest) ----
    imports,          \* file -> the files it imports, in declaration order
    reqFiles,         \* req.Files: the requested files, in order
    pb_plugins,       \* the request built by toPbRequest of part_008
    pb_plugin,        \* the request built by CodeGenRequest.toPbRequest of part_007
    \* ---- argument parsing (part_001 parseFlags) ----
    cmdline,          \* args[1:] of the program
    fs_files,         \* path -> the contents of the response file there
    pf_pc,            \* "idle", "start", "done"
    opts,             \* the protocOptions that parseFlags fills
    sourcesSeen,      \* the sources parseFlags has entered
    stdout,           \* what parseFlags wrote to stdout
    pf_err,           \* the error parseFlags returned
    \* ---- run after parseFlags (part_000 run) ----
    mode_pc,          \* "idle", "inputs", "load", "modes", "dispatch", "save", "done"
    executed,         \* the modes that have been executed
    stdin_read,       \* whether stdin has been read
    plugins_ran,      \* whether a plugin has been run
    written,          \* the files written
    mode_err,         \* the error run returns ("" for nil)
    has_src_info,     \* whether the loaded descriptors hold SourceCodeInfo
    stripped,         \* whether saveDescriptor has removed SourceCodeInfo from them
    req_from_stripped, \* whether a plugin request was built from stripped descriptors
    \* ---- descriptor sets (part_000 loadDescriptors, saveDescriptor) ----
    descSets,         \* the FileDescriptorSets of --descriptor_set_in, in order
    inputProtoFiles,  \* the requested file names, in order
    desc_pc,          \* "idle", "load", "save", "done"
    loaded,           \* what loadDescriptors returned and left in its maps
    includeImports,   \* the includeImports given to saveDescriptor
    fdSet,            \* fdSet.File as saveDescriptor marshals it
    \* ---- the coded reader (reader.go, codec.go) ----
    buf,              \* cb.buf: the bytes of the input
    cb_index,         \* cb.index before the call
    raw_pc,           \* "idle", "varint", "raw", "done"
    varint,           \* what decodeVarint returned and where it left cb.index
    raw,              \* what doDecodeRaw printed and returned
    \* ---- free field numbers (reader.go) ----
    md,               \* the message: its fields, reserved ranges and extension ranges
    free_pc,          \* "idle", "compute", "done"
    used,             \* used, as sort.Slice left it
    unused,           \* what computeFreeRanges returned
    \* ---- doCodeGen: plugins, assembly, emission (codegen.go 73-116, 236-322) ----
    em_locations,     \* locations: key -> outputLocation
    em_plugins,       \* what the plugin of each key returns when it is executed
    em_missing,       \* whether applyInsertions finds an insertion point missing
    em_pc,            \* "idle", "plugins", "assemble", "results", "done"
    em_order,         \* the keys in the order runPlugins executed their plugins
    em_resps,         \* resps: the files the executed plugins created
    em_pending,       \* the entries of results the range loop has not visited
    em_archiveResults, \* archiveResults: the files kept for the archives
    em_files,         \* the paths writeFileResult opened
    em_archives,      \* the archives writeArchiveResult opened, with their entries
    em_err,           \* the error doCodeGen returns
    \* ---- the plugin registries (plugins/reg.go, goxplugin/reg.go, codegen.go 344-351) ----
    reg_heap,         \* the maps: object 0 is pluginReg, object g the map made for goroutine g
    pluginRegMu,      \* the goroutine that holds the mutex, or 0
    reg_pc,           \* where each goroutine is in its call
    reg_call,         \* the call each goroutine is in
    reg_ret,          \* the map the last GetRegisteredPlugins of each goroutine returned
    reg_log,          \* the registrations in the order they held the mutex
    reg_inprocess,    \* inprocessPlugins of package goprotoc
    reg_inlog,        \* the calls of goprotoc.RegisterPlugin in their order
    reg_calls,        \* how many calls and writes were begun
    \* ---- driveProtocAsPlugin (codegen.go 372-454) ----
    drv_Args,         \* req.Args
    drv_Files,        \* the names of req.Files
    drv_fault,        \* the call of the system that fails in this run, or "none"
    drv_generated,    \* the files protoc writes under the output directory
    drv_pc,           \* "idle", the step that is next, or "returned"
    drv_fs,           \* the paths that exist in and under the temporary directory
    drv_created,      \* whether os.MkdirTemp has created the temporary directory
    drv_args,         \* args: the command line of protoc
    drv_resp,         \* the files given to resp.OutputFile
    drv_err,          \* the error that is returned
    \* ---- plugins.RunPlugin (plugin/exec.go 82-182) ----
    rp_name,          \* the name RunPlugin is called with
    rp_in,            \* what reading and decoding the request gives
    rp_plugin,        \* what the plugin function does: the files it emits, the error it returns
    rp_marshal,       \* how many of the calls of proto.Marshal fail
    rp_write,         \* whether out.Write succeeds
    rp_pc,            \* "idle", "read", "run", "finish", "done"
    rp_respb,         \* the response that is given to finish
    rp_out,           \* the responses written to out
    rp_ret            \* the error RunPlugin returns

asmVars == <<locations, output, snippets, asm_pc, cur, visited, results, asm_out>>

runVars == <<outputs, pluginDefs, inprocessPlugins, fs_kind, run_pc, run_args,
             run_locs, req_Args, invocations, received, failure, run_err,
             run_created>>

reqVars == <<imports, reqFiles, pb_plugins, pb_plugin>>

flagVars == <<cmdline, fs_files, pf_pc, opts, sourcesSeen, stdout, pf_err>>

modeVars == <<mode_pc, executed, stdin_read, plugins_ran, written, mode_err, has_src_info, stripped, req_from_stripped>>

descVars == <<descSets, inputProtoFiles, desc_pc, loaded, includeImports, fdSet>>

rawVars == <<buf, cb_index, raw_pc, varint, raw>>

freeVars == <<md, free_pc, used, unused>>

emitVars == <<em_locations, em_plugins, em_missing, em_pc, em_order, em_resps, em_pending, em_archiveResults, em_files, em_archives, em_err>>

regVars == <<reg_heap, pluginRegMu, reg_pc, reg_call, reg_ret, reg_log, reg_inprocess,
             reg_inlog, reg_calls>>

drvVars == <<drv_Args, drv_Files, drv_fault, drv_generated, drv_pc, drv_fs, drv_created, drv_args, drv_resp, drv_err>>

rpVars == <<rp_name, rp_in, rp_plugin, rp_marshal, rp_write, rp_pc, rp_respb, rp_out, rp_ret>>

vars == <<asmVars, runVars, reqVars, flagVars, modeVars, descVars, rawVars, freeVars, emitVars, regVars, drvVars, rpVars>>

\* what a step of one component leaves alone
AsmFrame == UNCHANGED <<runVars, reqVars, flagVars, modeVars, descVars, rawVars, freeVars, emitVars, regVars, drvVars, rpVars>>

RunFrame == UNCHANGED <<asmVars, reqVars, flagVars, modeVars, descVars, rawVars, freeVars, emitVars, regVars, drvVars, rpVars>>

ReqFrame == UNCHANGED <<asmVars, runVars, flagVars, modeVars, descVars, rawVars, freeVars, emitVars, regVars, drvVars, rpVars>>

FlagsFrame == UNCHANGED <<asmVars, runVars, reqVars, modeVars, descVars, rawVars, freeVars, emitVars, regVars, drvVars, rpVars>>

ModeFrame == UNCHANGED <<asmVars, runVars, reqVars, flagVars, descVars, rawVars, freeVars, emitVars, regVars, drvVars, rpVars>>

DescFrame == UNCHANGED <<asmVars, runVars, reqVars, flagVars, modeVars, rawVars, freeVars, emitVars, regVars, drvVars, rpVars>>

RawFrame == UNCHANGED <<asmVars, runVars, reqVars, flagVars, modeVars, descVars, freeVars, emitVars, regVars, drvVars, rpVars>>

FreeFrame == UNCHANGED <<asmVars, runVars, reqVars, flagVars, modeVars, descVars, rawVars, emitVars, regVars, drvVars, rpVars>>

EmitFrame == UNCHANGED <<asmVars, runVars, reqVars, flagVars, modeVars, descVars, rawVars, freeVars, regVars, drvVars, rpVars>>

RegFrame == UNCHANGED <<asmVars, runVars, reqVars, flagVars, modeVars, descVars, rawVars, freeVars, emitVars, drvVars, rpVars>>

DrvFrame == UNCHANGED <<asmVars, runVars, reqVars, flagVars, modeVars, descVars, rawVars, freeVars, emitVars, regVars, rpVars>>

RpFrame == UNCHANGED <<asmVars, runVars, reqVars, flagVars, modeVars, descVars, rawVars, freeVars, emitVars, regVars, drvVars>>

\* ------------------------------------------------------------------ bytes

NL == <<"\n">>

\* Go's data[a:b] on a slice whose bounds have been checked (0-based, half open).
Slice(data, a, b) == SubSeq(data, a + 1, b)

SliceFrom(data, a) == SubSeq(data, a + 1, Len(data))

\* bytes.Index: the first 0-based offset at which sub occurs in data, or -1.
Index(data, sub) ==
    LET hits == {i \in 0..(Len(data) - Len(sub)) : Slice(data, i, i + Len(sub)) = sub}
    IN IF hits = {} THEN -1 ELSE CHOOSE i \in hits : \A j \in hits : i <= j

\* bytes.IndexByte
IndexByte(data, c) ==
    LET hits == {i \in 0..(Len(data) - 1) : data[i + 1] = c}
    IN IF hits = {} THEN -1 ELSE CHOOSE i \in hits : \A j \in hits : i <= j

\* bytes.LastIndexByte
LastIndexByte(data, c) ==
    LET hits == {i \in 0..(Len(data) - 1) : data[i + 1] = c}
    IN IF hits = {} THEN -1 ELSE CHOOSE i \in hits : \A j \in hits : i >= j

\* unicode.IsSpace on the bytes that occur here
IsSpace(c) == c \in {" ", "\t", "\n", "\r"}

\* the number of leading white-space bytes
LeadingSpace(data) ==
    LET stops == {i \in 0..Len(data) : i = Len(data) \/ ~IsSpace(data[i + 1])}
    IN CHOOSE i \in stops : \A j \in stops : i <= j

\* bytes.TrimLeftFunc(data, unicode.IsSpace)
TrimLeftSpace(data) == SliceFrom(data, LeadingSpace(data))

\* len(bytes.TrimSpace(data)) == 0
AllSpace(data) == \A i \in 1..Len(data) : IsSpace(data[i])

\* bytes.HasSuffix
HasSuffix(data, suf) ==
    /\ Len(data) >= Len(suf)
    /\ SliceFrom(data, Len(data) - Len(suf)) = suf

\* bytes.Split(data, "\n"): the pieces between the newlines, the newlines dropped
RECURSIVE SplitLines(_)
SplitLines(data) ==
    LET i == IndexByte(data, "\n")
    IN IF i < 0 THEN <<data>>
       ELSE <<Slice(data, 0, i)>> \o SplitLines(SliceFrom(data, i + 1))

\* ------------------------------------------------- codegen.go: applyInsertions

insertionPointMarker ==
    <<"@", "@", "p", "r", "o", "t", "o", "c", "_", "i", "n", "s", "e", "r", "t", "i", "o", "n", "_", "p", "o", "i", "n", "t", "(">>

\* a Go map read: the zero value (an empty list) for an absent key
Lookup(m, k) == IF k \in DOMAIN m THEN m[k] ELSE <<>>

\* delete(m, k)
Delete(m, k) == [x \in DOMAIN m \ {k} |-> m[x]]

Outcome(kind, data, err) == [kind |-> kind, data |-> data, err |-> err]

NoErr == [msg |-> "", file |-> <<>>, who |-> {}]

\* codegen.go 554-583: the error for the insertions no marker consumed,
\* pointsByLang kept as the set of (lang, its points)
MissingPoints(fileName, insertions) ==
    LET langsOf(p) == {insertions[p][i].lang : i \in 1..Len(insertions[p])}
        allLangs == UNION {langsOf(p) : p \in DOMAIN insertions}
    IN [msg  |-> "missing insertion point(s) in",
        file |-> fileName,
        who  |-> {<<l, {p \in DOMAIN insertions : l \in langsOf(p)}>> : l \in allLangs}]

\* codegen.go 539-543: every line of the inserted data written after the indent
RECURSIVE IndentLines(_, _)
IndentLines(lines, indent) ==
    IF lines = <<>> THEN <<>>
    ELSE indent \o Head(lines) \o IndentLines(Tail(lines), indent)

\* the loop over the contents inserted at one point, run from the last one
RECURSIVE WriteInsertionsReversed(_, _, _, _)
WriteInsertionsReversed(result, insertedData, indent, sep) ==
    IF insertedData = <<>> THEN result
    ELSE LET ins  == insertedData[Len(insertedData)]
             body == IF Len(indent) = 0 THEN ins.data
                     ELSE IndentLines(SplitLines(ins.data), indent)
             r1   == result \o body
             r2   == IF HasSuffix(r1, sep) THEN r1 ELSE r1 \o sep
         IN WriteInsertionsReversed(r2, SubSeq(insertedData, 1, Len(insertedData) - 1),
                                    indent, sep)

\* codegen.go 527-549: the loop over the contents inserted at one point
RECURSIVE WriteInsertions(_, _, _, _)
WriteInsertions(result, insertedData, indent, sep) ==
    IF insertedData = <<>> THEN result
    ELSE LET ins  == Head(insertedData)
             body == IF Len(indent) = 0 THEN ins.data
                     ELSE IndentLines(SplitLines(ins.data), indent)
             r1   == result \o body
             r2   == IF HasSuffix(r1, sep) THEN r1 ELSE r1 \o sep
         IN WriteInsertions(r2, Tail(insertedData), indent, sep)

\* codegen.go 491: the slice taken as the point's name; endPos is the offset
\* bytes.IndexByte returned for data[startPos:], used as an offset into data
PointBounds(startPos, endPos) == [lo |-> startPos, hi |-> endPos]

\* codegen.go 480-587: one pass of the loop on the rest of the file (data), with
\* the insertions not yet consumed and the bytes written so far
RECURSIVE ApplyLoop(_, _, _, _)
ApplyLoop(fileName, data, insertions, result) ==
    LET pos      == Index(data, insertionPointMarker)
        startPos == pos + Len(insertionPointMarker)
        endPos   == IndexByte(SliceFrom(data, startPos), ")")
        finish   == IF DOMAIN insertions # {}
                    THEN Outcome("err", <<>>, MissingPoints(fileName, insertions))
                    ELSE Outcome("ok", result \o data, NoErr)
        b        == PointBounds(startPos, endPos)
    IN IF pos < 0 THEN finish
       ELSE IF endPos < 0 THEN finish
       ELSE IF b.lo > b.hi
            THEN Outcome("panic", <<>>, NoErr)   \* slice bounds out of range
       ELSE
         LET point        == Slice(data, b.lo, b.hi)
             insertedData == Lookup(insertions, point)
         IN IF Len(insertedData) = 0
            THEN ApplyLoop(fileName, SliceFrom(data, endPos + 1), insertions,
                           result \o Slice(data, 0, endPos + 1))
            ELSE
              LET prevLine    == LastIndexByte(Slice(data, 0, pos), "\n")
                  prevComment == LastIndexByte(Slice(data, prevLine + 1, pos), "/")
                  block ==
                      /\ prevComment # -1
                      /\ data[prevLine + 1 + prevComment + 1 + 1] = "*"
                      /\ AllSpace(Slice(data, prevLine + 1 + prevComment + 2, pos))
                  insertionIndex == IF block THEN prevLine + 1 + prevComment
                                    ELSE prevLine + 1
                  sep    == IF block THEN <<" ">> ELSE NL
                  line   == Slice(data, insertionIndex, pos)
                  indent == IF block THEN <<>>
                            ELSE Slice(line, 0, LeadingSpace(line))
                  r1 == WriteInsertions(result \o Slice(data, 0, insertionIndex),
                                        insertedData, indent, sep)
              IN ApplyLoop(fileName, SliceFrom(data, endPos + 1),
                           Delete(insertions, point),
                           r1 \o Slice(data, insertionIndex, endPos + 1))

\* codegen.go 463-588
applyInsertions(fileName, contents, insertions) ==
    ApplyLoop(fileName, contents, insertions, <<>>)


\* ---------------------------------------------- the assembler's inputs

\* how many snippets the plugins of one run emit
MaxSnippets == 2

\* the output keys of a run; "" is the key of --_out (part_001 196-204)
Langs == {"", "a", "b"}

NoLang == "<none>"

\* codegen.go 53-56: outputLocation
Locs == {[path |-> "/o", locationType |-> "dir"],
         [path |-> "/z.zip", locationType |-> "zip"]}

FileNames == {"foo.txt"}

PointExtra == <<"e", "x", "t", "r", "a">>

PointOther == <<"o", "t", "h", "e", "r">>

\* a name whose first bytes are PointExtra and that is as long as the marker
\* literal and PointExtra together
LongName == PointExtra \o [i \in 1..Len(insertionPointMarker) |-> "_"]

\* the text @@protoc_insertion_point(name)
MarkerText(name) == insertionPointMarker \o name \o <<")">>

BodyLineComment == <<"/", "/", " ">> \o MarkerText(PointExtra) \o NL

BodyBare == MarkerText(PointExtra) \o NL

BodyBlockComment == <<"/", "*", " ">> \o MarkerText(PointExtra) \o <<" ", "*", "/", "\n">>

BodyLongName == MarkerText(LongName) \o NL

BodyPlain == <<"x", "\n">>

\* the contents plugins create files with
Bodies == {BodyLineComment, BodyBare, BodyBlockComment, BodyLongName, BodyPlain}

\* the contents plugins insert
Payloads == {<<"h", "e", "l", "l", "o", "\n">>, <<"y">>}

Points == {PointExtra, PointOther}

\* part_007 102-104: result; the empty insertion point names the file itself
Keys == [name : FileNames, insertionPoint : {<<>>} \cup Points]

\* ------------------------------------------------ part_007: CodeGenResponse

\* part_007 111-127: addSnippet panics when the file is already open
addSnippetPanics(files, key) ==
    key.insertionPoint = <<>> /\ Len(Lookup(files, key)) > 0

\* part_007 126: m.files[key] = append(m.files[key], data{...})
addSnippet(files, pluginName, key, contents) ==
    [k \in DOMAIN files \cup {key} |->
        IF k = key
        THEN Lookup(files, key) \o <<[plugin |-> pluginName, contents |-> contents]>>
        ELSE files[k]]

\* ------------------------------------------ codegen.go: assembleFileOutputs

\* a nil io.Reader
NilReader == <<"<nil>">>

\* codegen.go 324-329: the zero fileOutput
ZeroFileOutput ==
    [contents |-> NilReader, createdBy |-> "", insertions |-> <<>>, insertsFrom |-> {}]

\* codegen.go 65-71: outputFile.String()
FileString(f) ==
    IF f.loc.locationType = "dir" THEN <<f.loc.path, "/", f.fileName>>
    ELSE <<f.loc.path, ":", f.fileName>>

\* codegen.go 203: the test for a file some plugin has already created
AlreadyCreated(o) == o.createdBy # ""

\* codegen.go 195-219: the callback of ForEach on one output of plugin lang;
\* res is the table, or the error returned
Callback(res, lang, key, data) ==
    LET fullOutput == [loc |-> locations[lang], fileName |-> key.name]
        o == Lookup(res.table, fullOutput)
        oo == IF o = <<>> THEN ZeroFileOutput ELSE o
        put(v) == [f \in DOMAIN res.table \cup {fullOutput} |->
                      IF f = fullOutput THEN v ELSE res.table[f]]
    IN IF key.insertionPoint = <<>>
       THEN IF AlreadyCreated(oo)
            THEN [res EXCEPT !.err =
                     [msg |-> "conflict: both A and B tried to create file",
                      file |-> FileString(fullOutput),
                      who |-> <<oo.createdBy, lang>>]]
            ELSE [res EXCEPT !.table =
                     put([oo EXCEPT !.contents = data, !.createdBy = lang])]
       ELSE [res EXCEPT !.table =
                put([oo EXCEPT
                       !.insertions =
                           [p \in DOMAIN oo.insertions \cup {key.insertionPoint} |->
                               IF p = key.insertionPoint
                               THEN Lookup(oo.insertions, p)
                                        \o <<[data |-> data, lang |-> lang]>>
                               ELSE oo.insertions[p]],
                       !.insertsFrom = oo.insertsFrom \cup {lang}])]

\* part_007 153-157: the inner loop of ForEach over the data of one key,
\* stopped by the first error
RECURSIVE ForEachData(_, _, _, _)
ForEachData(res, lang, key, ds) ==
    IF ds = <<>> \/ res.err # NoErr THEN res
    ELSE ForEachData(Callback(res, lang, key, Head(ds).contents), lang, key, Tail(ds))

\* FileResult without the test of line 231: every file goes through the splicer
FileResultAlwaysSpliced(file, o) ==
    IF o.contents = NilReader
    THEN Outcome("err", <<>>,
                 [msg |-> "generated invalid content for",
                  file |-> FileString(file), who |-> <<o.createdBy>>])
    ELSE applyInsertions(FileString(file), o.contents, o.insertions)

\* codegen.go 226-239: what the second loop does with one file
FileResult(file, o) ==
    IF o.contents = NilReader
    THEN Outcome("err", <<>>,
                 [msg |-> "generated invalid content for",
                  file |-> FileString(file), who |-> <<o.createdBy>>])
    ELSE IF DOMAIN o.insertions # {}
         THEN applyInsertions(FileString(file), o.contents, o.insertions)
         ELSE Outcome("ok", o.contents, NoErr)

NoOutcome == [kind |-> "none", files |-> <<>>, err |-> NoErr]

\* ------------------------------------------------------------ actions

AsmInit ==
    /\ locations \in [Langs -> Locs]
    /\ output = [l \in Langs |-> <<>>]
    /\ snippets = 0
    /\ asm_pc = "gen"
    /\ cur = NoLang
    /\ visited = {}
    /\ results = <<>>
    /\ asm_out = NoOutcome

\* part_007 135-139: a plugin opens a snippet (or a file) and writes contents,
\* in a run of at most `most` snippets
OutputSnippetUpTo(most, lang, key, contents) ==
    /\ asm_pc = "gen"
    /\ snippets < most
    /\ snippets' = snippets + 1
    /\ IF addSnippetPanics(output[lang], key)
       THEN /\ asm_pc' = "done"
            /\ asm_out' = [NoOutcome EXCEPT
                              !.kind = "panic",
                              !.err = [msg |-> "file already opened for writing by plugin",
                                       file |-> <<key.name>>, who |-> {lang}]]
            /\ UNCHANGED output
       ELSE /\ output' = [output EXCEPT ![lang] = addSnippet(@, lang, key, contents)]
            /\ UNCHANGED <<asm_pc, asm_out>>
    /\ UNCHANGED <<locations, cur, visited, results>>
    /\ AsmFrame

OutputSnippet(lang, key, contents) == OutputSnippetUpTo(MaxSnippets, lang, key, contents)

\* codegen.go 194-223 with part_007 149-160: the outer loops hand one key of one
\* response to the callback; a response is finished before the next is begun
AssembleVisit(lang, key) ==
    /\ asm_pc \in {"gen", "collect"}
    /\ key \in DOMAIN output[lang]
    /\ <<lang, key>> \notin visited
    /\ IF cur \in {NoLang, lang} THEN TRUE
       ELSE \A k \in DOMAIN output[cur] : <<cur, k>> \in visited
    /\ LET r == ForEachData([table |-> results, err |-> NoErr], lang, key,
                            output[lang][key])
       IN IF r.err # NoErr
          THEN /\ asm_pc' = "done"
               /\ asm_out' = [kind |-> "err", files |-> <<>>, err |-> r.err]
               /\ UNCHANGED results
          ELSE /\ asm_pc' = "collect"
               /\ results' = r.table
               /\ UNCHANGED asm_out
    /\ cur' = lang
    /\ visited' = visited \cup {<<lang, key>>}
    /\ UNCHANGED <<locations, output, snippets>>
    /\ AsmFrame

\* codegen.go 225-240: the second loop, which returns at the first file that
\* fails (the files are visited in the order of a map)
AssembleFinish ==
    /\ asm_pc \in {"gen", "collect"}
    /\ \A l \in Langs : \A k \in DOMAIN output[l] : <<l, k>> \in visited
    /\ LET fr == [f \in DOMAIN results |-> FileResult(f, results[f])]
           bad == {f \in DOMAIN results : fr[f].kind # "ok"}
       IN IF bad = {}
          THEN asm_out' = [kind |-> "ok",
                           files |-> [f \in DOMAIN results |-> fr[f].data],
                           err |-> NoErr]
          ELSE \E f \in bad :
                 asm_out' = [kind |-> fr[f].kind, files |-> <<>>, err |-> fr[f].err]
    /\ asm_pc' = "done"
    /\ UNCHANGED <<locations, output, snippets, cur, visited, results>>
    /\ AsmFrame

AsmNext ==
    \/ \E l \in Langs, k \in Keys :
         \E c \in (IF k.insertionPoint = <<>> THEN Bodies ELSE Payloads) :
           OutputSnippet(l, k, c)
    \/ \E l \in Langs, k \in Keys : AssembleVisit(l, k)
    \/ AssembleFinish


\* ------------------------------------------------ the assembler's claims

PrimaryKey(n) == [name |-> n, insertionPoint |-> <<>>]

OutFile(l, n) == [loc |-> locations[l], fileName |-> n]

\* the plugins that created file n in the location of plugin l
CreatorsOf(l, n) ==
    {c \in Langs : locations[c] = locations[l] /\ PrimaryKey(n) \in DOMAIN output[c]}

\* assembleFileOutputs has returned (no plugin panicked while writing)
Assembled ==
    /\ asm_pc = "done"
    /\ asm_out.err.msg # "file already opened for writing by plugin"

\* the line of body that holds the marker of point P starts the line, or follows
\* text with no white space before it and no block comment
MarkerLineStart(body, P) ==
    LastIndexByte(Slice(body, 0, Index(body, MarkerText(P))), "\n") + 1

PlainMarkerLine(body, P) ==
    /\ Index(body, MarkerText(P)) >= 0
    /\ LET pre == Slice(body, MarkerLineStart(body, P), Index(body, MarkerText(P)))
       IN /\ Index(pre, <<"/", "*">>) < 0
          /\ pre = <<>> \/ ~IsSpace(pre[1])

\* body with content C placed before the line of the marker of point P
SplicedBeforeLine(body, P, C) ==
    Slice(body, 0, MarkerLineStart(body, P))
        \o C \o (IF HasSuffix(C, NL) THEN <<>> ELSE NL)
        \o SliceFrom(body, MarkerLineStart(body, P))

\* plugin la created file n, plugin lb inserted once at point P of it, and the
\* run produced nothing else
OneInsertionRun(la, lb, n, P) ==
    /\ la # lb
    /\ locations[la] = locations[lb]
    /\ DOMAIN output[la] = {PrimaryKey(n)}
    /\ DOMAIN output[lb] = {[name |-> n, insertionPoint |-> P]}
    /\ Len(output[lb][[name |-> n, insertionPoint |-> P]]) = 1
    /\ \A l \in Langs \ {la, lb} : DOMAIN output[l] = {}

\* C1: when a created file holds the marker of point P on a line with no
\* leading white space and no block comment, and another plugin inserts C at P,
\* the assembled file is the original with C (and a newline, if C has none at
\* its end) placed right before the marker's line, the line itself unchanged
C1_InsertionBeforeMarkerLine ==
    \A la \in Langs, lb \in Langs, n \in FileNames, P \in Points :
        (/\ Assembled
         /\ OneInsertionRun(la, lb, n, P)
         /\ PlainMarkerLine(output[la][PrimaryKey(n)][1].contents, P))
        => /\ asm_out.kind = "ok"
           /\ asm_out.files[OutFile(la, n)] =
                  SplicedBeforeLine(
                      output[la][PrimaryKey(n)][1].contents, P,
                      output[lb][[name |-> n, insertionPoint |-> P]][1].contents)

\* C2: two different plugins that create the same file in the same location
\* make assembleFileOutputs fail with the conflict error
C2_ConflictReported ==
    \A la \in Langs, lb \in Langs, n \in FileNames :
        (/\ Assembled
         /\ la # lb
         /\ lb \in CreatorsOf(la, n)
         /\ la \in CreatorsOf(la, n))
        => /\ asm_out.kind = "err"
           /\ asm_out.err.msg = "conflict: both A and B tried to create file"

\* C3: an insertion at point P of file F, when no plugin created F or the
\* contents of F hold no marker of P, makes code generation fail; with F
\* created it fails with an error (the missing-points error naming the plugin
\* and P, when that file is the one reported)
C3_UnmatchedInsertionFatal ==
    \A l \in Langs, k \in Keys :
        (/\ Assembled
         /\ k.insertionPoint # <<>>
         /\ k \in DOMAIN output[l]
         /\ \A c \in CreatorsOf(l, k.name) :
               Index(output[c][PrimaryKey(k.name)][1].contents,
                     MarkerText(k.insertionPoint)) < 0)
        => /\ asm_out.kind = "err"
           /\ (/\ asm_out.err.msg = "missing insertion point(s) in"
               /\ asm_out.err.file = FileString(OutFile(l, k.name)))
              => \E w \in asm_out.err.who : w[1] = l /\ k.insertionPoint \in w[2]

\* every file of the table was created and has no insertions
NoInsertionsAtAll ==
    \A f \in DOMAIN results :
        results[f].contents # NilReader /\ DOMAIN results[f].insertions = {}

\* C4: a created file that no insertion targets is emitted with the bytes its
\* creating plugin produced, markers included; a run of such files succeeds
C4_UntouchedFilesIdentical ==
    Assembled =>
        /\ (asm_out.err.msg # "conflict: both A and B tried to create file"
            /\ NoInsertionsAtAll) => asm_out.kind = "ok"
        /\ asm_out.kind = "ok" =>
              \A f \in DOMAIN asm_out.files :
                  DOMAIN results[f].insertions = {} =>
                      \E l \in Langs :
                          /\ l = results[f].createdBy
                          /\ OutFile(l, f.fileName) = f
                          /\ asm_out.files[f] =
                                 output[l][PrimaryKey(f.fileName)][1].contents

\* a file holding a marker was emitted by a successful run with no insertions
C4_Witness ==
    /\ Assembled
    /\ asm_out.kind = "ok"
    /\ \E f \in DOMAIN asm_out.files :
          /\ DOMAIN results[f].insertions = {}
          /\ Index(asm_out.files[f], insertionPointMarker) >= 0


\* ------------------------------------------------------------ strings

\* strings.HasPrefix
HasPrefix(str, pre) == Len(str) >= Len(pre) /\ Slice(str, 0, Len(pre)) = pre

\* strings.Split(str, sep) for a one-byte separator
RECURSIVE Split(_, _)
Split(str, sep) ==
    LET i == IndexByte(str, sep)
    IN IF i < 0 THEN <<str>>
       ELSE <<Slice(str, 0, i)>> \o Split(SliceFrom(str, i + 1), sep)

\* strings.SplitN(str, sep, 2) for a one-byte separator
SplitN2(str, sep) ==
    LET i == IndexByte(str, sep)
    IN IF i < 0 THEN <<str>> ELSE <<Slice(str, 0, i), SliceFrom(str, i + 1)>>

\* ------------------------------------------------- the executor's inputs

\* codegen.go 30-40
protocOutputs ==
    {"cpp", "csharp", "java", "javanano", "js", "objc", "php", "python", "ruby"}

\* the output keys of a run: one language protoc provides, one it does not
RunLangs == {"java", "gox"}

\* the values of --<key>_out: OUT_DIR or ARGS:OUT_DIR
OutValues ==
    {<<"o">>, <<"x", ":", "o">>, <<"x", ",", "y", ":", "o">>, <<":", "o">>, <<"x", ":">>,
     <<"o", "/", "z", ".", "z", "i", "p">>}

\* a plugin path: the directory, the "protoc-gen-" prefix of the base name (or
\* none) and the rest of the base name
PluginPaths == {<<"/bin/", "", "mygen">>, <<"/p/", "protoc-gen-", "custom">>}

\* the path of --plugin=protoc-gen-<key>= and of a key with no --plugin
EmptyPath == <<"", "", "">>

Dirs == {<<"o">>, <<".">>}

\* the messages of the errors plugins fail with; <<>> is the empty message
PluginMessages == {<<>>, <<"boom">>}

NoFailure == [lang |-> NoLang, kind |-> "none", text |-> <<>>]

NoMessage == <<"<no error>">>

\* ------------------------------------------------ codegen.go: the executor

\* codegen.go 134-141: the location type by the extension of dest
LocationType(dest) ==
    IF HasSuffix(dest, <<".", "j", "a", "r">>) THEN "jar"
    ELSE IF HasSuffix(dest, <<".", "z", "i", "p">>) THEN "zip"
    ELSE "dir"

\* filepath.Dir of a relative destination
ParentDir(dest) ==
    LET i == LastIndexByte(dest, "/")
    IN IF i < 0 THEN <<".">> ELSE Slice(dest, 0, i)

\* LocationOf without the os.Stat of lines 158-168
LocationOfUnchecked(lang, loc) ==
    LET locParts == SplitN2(loc, ":")
        arg  == IF Len(locParts) > 1 THEN locParts[1] ELSE <<>>
        dest == IF Len(locParts) > 1 THEN locParts[2] ELSE loc
    IN IF dest = <<>>
       THEN [err |-> <<lang, " has empty output path">>, arg |-> arg, loc |-> <<>>]
       ELSE [err |-> <<>>, arg |-> arg,
             loc |-> [path |-> <<"/cwd/">> \o dest, locationType |-> LocationType(dest)]]

\* codegen.go 121-169: what computeOutputLocations finds for one --<key>_out:
\* the error, or the argument string and the location
LocationOf(lang, loc) ==
    LET locParts == SplitN2(loc, ":")
        arg  == IF Len(locParts) > 1 THEN locParts[1] ELSE <<>>
        dest == IF Len(locParts) > 1 THEN locParts[2] ELSE loc
        locType == LocationType(dest)
        dir == IF locType # "dir" THEN ParentDir(dest) ELSE dest
    IN IF dest = <<>>
       THEN [err |-> <<lang, " has empty output path">>, arg |-> arg, loc |-> <<>>]
       ELSE IF fs_kind[dir] = "none"
       THEN [err |-> <<dir, ": No such file or directory">>, arg |-> arg, loc |-> <<>>]
       ELSE IF fs_kind[dir] # "dir"
       THEN [err |-> <<"output for ", lang, " is not a directory: ", dir>>,
             arg |-> arg, loc |-> <<>>]
       ELSE [err |-> <<>>, arg |-> arg,
             loc |-> [path |-> <<"/cwd/">> \o dest, locationType |-> locType]]

\* part_008 205-210 (pluginName) of path.Base(pluginPath)
PluginNameOfPath(path) ==
    IF path[2] = "protoc-gen-" THEN <<path[3]>> ELSE <<path[2], path[3]>>

\* executePlugin with the registry looked up before the configured path
ResolveHandlerRegistryFirst(lang, pluginName) ==
    IF lang \in inprocessPlugins
    THEN [kind |-> "inprocess", path |-> EmptyPath]
    ELSE IF pluginName # EmptyPath
         THEN [kind |-> "exec", path |-> pluginName]
         ELSE IF lang \in protocOutputs
              THEN [kind |-> "protoc", path |-> EmptyPath]
              ELSE [kind |-> "exec", path |-> <<"", "protoc-gen-", lang>>]

\* codegen.go 357-369: the handler executePlugin chooses for lang
ResolveHandler(lang, pluginName) ==
    IF pluginName = EmptyPath
    THEN IF lang \in inprocessPlugins
         THEN [kind |-> "inprocess", path |-> EmptyPath]
         ELSE IF lang \in protocOutputs
              THEN [kind |-> "protoc", path |-> EmptyPath]
              ELSE [kind |-> "exec", path |-> <<"", "protoc-gen-", lang>>]
    ELSE [kind |-> "exec", path |-> pluginName]

\* codegen.go 354-356: req.Args as executePlugin leaves it
SetArgs(reqArgs, outputArg) ==
    IF Len(outputArg) > 0 THEN Split(outputArg, ",") ELSE reqArgs

\* the ways a handler can end: "ok", or a failure kind with the text of its
\* error.  part_008 41-53 (Exec), codegen.go 360 (in-process), 372-429 (protoc)
HandlerEnds(h, lang, reqArgs) ==
    IF h.kind = "exec"
    THEN {[kind |-> "ok", text |-> <<>>]}
         \cup {[kind |-> "subprocess",
                text |-> <<"executing plugin ", "\""  >> \o PluginNameOfPath(h.path)
                             \o <<"\"", " failed: ", "exit status 1">>]}
         \cup {[kind |-> "response", text |-> m] : m \in PluginMessages}
         \cup {[kind |-> "response", text |-> <<lang, ": ">> \o m] :
                  m \in PluginMessages \ {<<>>}}
    ELSE IF h.kind = "inprocess"
    THEN {[kind |-> "ok", text |-> <<>>]}
         \cup {[kind |-> "inprocess", text |-> m] : m \in PluginMessages}
    ELSE IF \E i \in 1..Len(reqArgs) : HasPrefix(reqArgs[i], <<"-">>)
    THEN {[kind |-> "protoc",
           text |-> <<"option ", "for ", lang, " output does not start with '-'">>]}
    ELSE IF \E i \in 1..Len(reqArgs) : reqArgs[i] = <<>>
    THEN {[kind |-> "protoc", text |-> <<"request argument is empty">>]}
    ELSE {[kind |-> "ok", text |-> <<>>],
          [kind |-> "protoc",
           text |-> <<"protoc failed to produce output for ", lang>>]}

\* Run without the replacement of an empty message
SurfacedAsIs(text) == text

\* part_000 34-44: the message Run writes for an error
Surfaced(text) == IF text = <<>> THEN <<"unexpected error">> ELSE text

RunInit ==
    /\ outputs \in UNION {[D -> OutValues] : D \in SUBSET RunLangs}
    /\ pluginDefs \in UNION {[D -> PluginPaths \cup {EmptyPath}] : D \in SUBSET RunLangs}
    /\ inprocessPlugins \in SUBSET RunLangs
    /\ fs_kind \in {[d \in Dirs |-> IF d = <<".">> THEN "dir" ELSE k] :
                       k \in {"dir", "file", "none"}}
    /\ run_pc = "start"
    /\ run_args = <<>>
    /\ run_locs = <<>>
    /\ req_Args = <<>>
    /\ invocations = [l \in RunLangs |-> <<>>]
    /\ received = <<>>
    /\ failure = NoFailure
    /\ run_err = NoMessage
    /\ run_created = {}

\* codegen.go 118-172: computeOutputLocations, which returns at the first
\* output (in the order of a map) that is in error
ComputeOutputLocations ==
    /\ run_pc = "start"
    /\ DOMAIN outputs # {}
    /\ LET found == [l \in DOMAIN outputs |-> LocationOf(l, outputs[l])]
           bad == {l \in DOMAIN outputs : found[l].err # <<>>}
       IN IF bad = {}
          THEN /\ run_args' = [l \in DOMAIN outputs |-> found[l].arg]
               /\ run_locs' = [l \in DOMAIN outputs |-> found[l].loc]
               /\ run_pc' = "plugins"
               /\ UNCHANGED run_err
          ELSE /\ \E l \in bad : run_err' = found[l].err
               /\ run_pc' = "done"
               /\ UNCHANGED <<run_args, run_locs>>
    /\ UNCHANGED <<outputs, pluginDefs, inprocessPlugins, fs_kind, req_Args,
                   invocations, received, failure, run_created>>
    /\ RunFrame

\* codegen.go 181-188 with 353-370: one pass of the loop of runPlugins, the
\* keys taken in the order of a map; an error ends the run (part_000 34-44)
ExecutePlugin(lang) ==
    /\ run_pc = "plugins"
    /\ lang \in DOMAIN run_args
    /\ lang \notin DOMAIN received
    /\ LET args == SetArgs(req_Args, run_args[lang])
           h == ResolveHandler(lang, IF lang \in DOMAIN pluginDefs
                                     THEN pluginDefs[lang] ELSE EmptyPath)
       IN /\ req_Args' = args
          /\ invocations' = [invocations EXCEPT ![lang] = Append(@, h)]
          /\ received' = [l \in DOMAIN received \cup {lang} |->
                             IF l = lang THEN args ELSE received[l]]
          /\ \E end \in HandlerEnds(h, lang, args) :
                IF end.kind = "ok"
                THEN UNCHANGED <<run_pc, failure, run_err>>
                ELSE /\ run_pc' = "done"
                     /\ failure' = [lang |-> lang, kind |-> end.kind, text |-> end.text]
                     /\ run_err' = Surfaced(end.text)
    /\ UNCHANGED <<outputs, pluginDefs, inprocessPlugins, fs_kind, run_args, run_locs,
                   run_created>>
    /\ RunFrame

\* codegen.go 189: runPlugins returns the responses
RunPluginsReturn ==
    /\ run_pc = "plugins"
    /\ DOMAIN received = DOMAIN run_args
    /\ run_pc' = "emit"
    /\ UNCHANGED <<outputs, pluginDefs, inprocessPlugins, fs_kind, run_args,
                   run_locs, req_Args, invocations, received, failure, run_err,
                   run_created>>
    /\ RunFrame

\* the error of assembleFileOutputs or of writing a file
EmitFailed == <<"<error of assembling or writing>">>

\* codegen.go 84-115: the responses are assembled and the files written under
\* the output locations; some of the locations get a file before the step
\* ends, and ok is whether it ends without error
EmitOutputs(ok) ==
    /\ run_pc = "emit"
    /\ \E into \in SUBSET {run_locs[l] : l \in DOMAIN run_locs} : run_created' = into
    /\ run_err' = IF ok THEN run_err ELSE EmitFailed
    /\ run_pc' = "done"
    /\ UNCHANGED <<outputs, pluginDefs, inprocessPlugins, fs_kind, run_args,
                   run_locs, req_Args, invocations, received, failure>>
    /\ RunFrame

RunNext ==
    \/ ComputeOutputLocations
    \/ \E l \in RunLangs : ExecutePlugin(l)
    \/ RunPluginsReturn
    \/ \E ok \in BOOLEAN : EmitOutputs(ok)

\* the directory computeOutputLocations looks for: the destination, or its
\* parent when the destination is an archive
CheckedDir(loc) ==
    LET locParts == SplitN2(loc, ":")
        dest == IF Len(locParts) > 1 THEN locParts[2] ELSE loc
    IN IF LocationType(dest) # "dir" THEN ParentDir(dest) ELSE dest

\* some output's directory does not exist
SomeDirMissing ==
    \E l \in DOMAIN outputs :
        /\ CheckedDir(outputs[l]) # <<>>
        /\ fs_kind[CheckedDir(outputs[l])] = "none"

\* the message "<dir>: No such file or directory"
IsNoSuchDir(err, dir) ==
    /\ Len(err) = 2
    /\ err[2] = ": No such file or directory"
    /\ err[1] = dir

\* the message "<key> has empty output path"
IsEmptyPath(err, l) ==
    /\ Len(err) = 2
    /\ err[2] = " has empty output path"
    /\ err[1] = l

ConfiguredPath(l) == l \in DOMAIN pluginDefs /\ pluginDefs[l] # EmptyPath

\* the handler the priority order names for key l
HandlerByPriority(l) ==
    IF ConfiguredPath(l) THEN [kind |-> "exec", path |-> pluginDefs[l]]
    ELSE IF l \in inprocessPlugins THEN [kind |-> "inprocess", path |-> EmptyPath]
    ELSE IF l \in {"cpp", "csharp", "java", "javanano", "js", "objc", "php",
                   "python", "ruby"}
         THEN [kind |-> "protoc", path |-> EmptyPath]
    ELSE [kind |-> "exec", path |-> <<"", "protoc-gen-", l>>]

\* C5: the handler of a key is the configured binary, else the registered
\* in-process plugin, else protoc for its built-in languages, else the program
\* protoc-gen-<key>; a key that was executed had exactly one handler invoked,
\* and a run that ends without error executed every key
C5_HandlerPriority ==
    \A l \in RunLangs :
        /\ Len(invocations[l]) <= 1
        /\ l \in DOMAIN received <=> Len(invocations[l]) = 1
        /\ Len(invocations[l]) = 1 => invocations[l][1] = HandlerByPriority(l)
        /\ (run_pc = "done" /\ run_err = NoMessage /\ l \in DOMAIN outputs)
              => Len(invocations[l]) = 1

\* a key with both a configured path and a registered plugin ran the binary,
\* and the run ended without error
C5_Witness ==
    /\ run_pc = "done"
    /\ run_err = NoMessage
    /\ \E l \in DOMAIN received :
          /\ ConfiguredPath(l)
          /\ l \in inprocessPlugins
          /\ invocations[l] = <<[kind |-> "exec", path |-> pluginDefs[l]]>>
    /\ \E l \in DOMAIN received : invocations[l][1].kind = "protoc"

\* the ARGS part of a value ARGS:OUT_DIR, split on commas; none when the value
\* has no ARGS part
OwnArgs(value) ==
    IF IndexByte(value, ":") <= 0 THEN <<>>
    ELSE Split(Slice(value, 0, IndexByte(value, ":")), ",")

\* C7: every plugin invoked in a run receives exactly the arguments of its own
\* --<key>_out value, whatever the other directives and the order of execution
C7_OwnArgsOnly ==
    \A l \in DOMAIN received : received[l] = OwnArgs(outputs[l])

PluginFailed == failure.kind \in {"subprocess", "response", "inprocess"}

NFiles == 3

Files == 1..NFiles

\* the sequences that list some members of S, each once
RECURSIVE ListsOf(_)
ListsOf(S) ==
    {<<>>} \cup UNION {{<<x>> \o t : t \in ListsOf(S \ {x})} : x \in S}

NoRequest == [file_to_generate |-> <<>>, proto_file |-> <<>>, built |-> FALSE]

\* part_008 90-99: addRecursive; st holds *files and seen
RECURSIVE addRecursive(_, _)
addRecursive(fds, st) ==
    IF fds = <<>> THEN st
    ELSE LET fd == Head(fds)
         IN IF fd \in st.seen THEN addRecursive(Tail(fds), st)
            ELSE LET st1 == addRecursive(imports[fd], [st EXCEPT !.seen = @ \cup {fd}])
                     st2 == [st1 EXCEPT !.files = Append(@, fd)]
                 IN addRecursive(Tail(fds), st2)

\* part_008 79-85: file_to_generate and proto_file of toPbRequest
toPbRequest(files) ==
    [file_to_generate |-> files,
     proto_file |-> addRecursive(files, [files |-> <<>>, seen |-> {}]).files,
     built |-> TRUE]

\* part_007 84-87: the loop of CodeGenRequest.addRecursive over the imports of
\* fd, the append to *files inside it
RECURSIVE CodeGenRequest_addRecursive(_, _)
RECURSIVE CodeGenRequest_addImports(_, _, _)
CodeGenRequest_addImports(fd, deps, st) ==
    IF deps = <<>> THEN st
    ELSE LET st1 == CodeGenRequest_addRecursive(Head(deps), st)
             st2 == [st1 EXCEPT !.files = Append(@, fd)]
         IN CodeGenRequest_addImports(fd, Tail(deps), st2)

\* part_007 77-88: CodeGenRequest.addRecursive
CodeGenRequest_addRecursive(fd, st) ==
    IF fd \in st.seen THEN st
    ELSE CodeGenRequest_addImports(fd, imports[fd], [st EXCEPT !.seen = @ \cup {fd}])

\* part_007 68-70: one call of addRecursive for each requested file, each with
\* a new seen set
RECURSIVE CodeGenRequest_addAll(_, _)
CodeGenRequest_addAll(fds, files) ==
    IF fds = <<>> THEN files
    ELSE CodeGenRequest_addAll(
             Tail(fds),
             CodeGenRequest_addRecursive(Head(fds), [files |-> files, seen |-> {}]).files)

\* part_007 63-71: file_to_generate and proto_file of CodeGenRequest.toPbRequest
CodeGenRequest_toPbRequest(files) ==
    [file_to_generate |-> files,
     proto_file |-> CodeGenRequest_addAll(files, <<>>),
     built |-> TRUE]

\* the descriptors of a run: imports are acyclic (a file imports files of a
\* lower number), and at least one file is requested
ReqInit ==
    /\ imports \in {g \in [Files -> ListsOf(Files)] :
                       \A f \in Files : \A i \in 1..Len(g[f]) : g[f][i] < f}
    /\ reqFiles \in ListsOf(Files) \ {<<>>}
    /\ pb_plugins = NoRequest
    /\ pb_plugin = NoRequest

\* part_008 21-33: Exec of package plugins builds the request
Exec_plugins ==
    /\ ~pb_plugins.built
    /\ pb_plugins' = toPbRequest(reqFiles)
    /\ UNCHANGED <<imports, reqFiles, pb_plugin>>
    /\ ReqFrame

\* plugin/exec.go 22-34: Exec of plugin/exec.go builds the request
Exec_plugin ==
    /\ ~pb_plugin.built
    /\ pb_plugin' = CodeGenRequest_toPbRequest(reqFiles)
    /\ UNCHANGED <<imports, reqFiles, pb_plugins>>
    /\ ReqFrame

ReqNext == Exec_plugins \/ Exec_plugin

\* ------------------------------------------- the request builders' claims

\* the files reachable from S by imports, S included
RECURSIVE ImportClosure(_)
ImportClosure(S) ==
    LET T == S \cup UNION {{imports[f][i] : i \in 1..Len(imports[f])} : f \in S}
    IN IF T = S THEN S ELSE ImportClosure(T)

\* the request names the requested files in order, and lists every file of
\* their import closure once, after the files it imports
GoodRequest(pb) ==
    /\ pb.file_to_generate = reqFiles
    /\ {pb.proto_file[i] : i \in 1..Len(pb.proto_file)}
           = ImportClosure({reqFiles[i] : i \in 1..Len(reqFiles)})
    /\ \A i \in 1..Len(pb.proto_file), j \in 1..Len(pb.proto_file) :
           pb.proto_file[i] = pb.proto_file[j] => i = j
    /\ \A i \in 1..Len(pb.proto_file) :
           \A k \in 1..Len(imports[pb.proto_file[i]]) :
               \E j \in 1..(i - 1) : pb.proto_file[j] = imports[pb.proto_file[i]][k]

\* C6: both request builders give file_to_generate as the requested files in
\* order and proto_file as the import closure, each file once and after its
\* dependencies
C6_RequestHoldsClosure ==
    /\ pb_plugins.built => GoodRequest(pb_plugins)
    /\ pb_plugin.built => GoodRequest(pb_plugin)

\* C6, for the builder of part_008 alone
C6_Part008RequestHoldsClosure == pb_plugins.built => GoodRequest(pb_plugins)


\* ------------------------------------------------------------ parseFlags

\* how many arguments the command line has at most
MaxArgs == 2

\* strings.ToLower on ASCII
UpperCase ==
    <<"A", "B", "C", "D", "E", "F", "G", "H", "I", "J", "K", "L", "M",
      "N", "O", "P", "Q", "R", "S", "T", "U", "V", "W", "X", "Y", "Z">>

LowerCase ==
    <<"a", "b", "c", "d", "e", "f", "g", "h", "i", "j", "k", "l", "m",
      "n", "o", "p", "q", "r", "s", "t", "u", "v", "w", "x", "y", "z">>

ToLower(str) ==
    [i \in 1..Len(str) |->
        IF \E k \in 1..Len(UpperCase) : UpperCase[k] = str[i]
        THEN LowerCase[CHOOSE k \in 1..Len(UpperCase) : UpperCase[k] = str[i]]
        ELSE str[i]]

\* the number of trailing white-space bytes
TrailingSpace(str) ==
    LET stops == {n \in 0..Len(str) : n = Len(str) \/ ~IsSpace(str[Len(str) - n])}
    IN CHOOSE n \in stops : \A m \in stops : n <= m

\* strings.TrimSpace
TrimSpace(str) ==
    LET left == TrimLeftSpace(str)
    IN Slice(left, 0, Len(left) - TrailingSpace(left))

\* filepath.Base
Base(path) ==
    LET slashes == {n \in 0..Len(path) : \A k \in (Len(path) - n + 1)..Len(path) : path[k] = "/"}
        n       == CHOOSE x \in slashes : \A y \in slashes : x >= y
        clean   == Slice(path, 0, Len(path) - n)
        last    == SliceFrom(clean, LastIndexByte(clean, "/") + 1)
    IN IF path = <<>> THEN <<".">>
       ELSE IF clean = <<>> THEN <<"/">>
       ELSE last

\* part_001 82-153: the option names of the switch
opt_I == <<"-", "I">>

opt_proto_path == <<"-", "-", "p", "r", "o", "t", "o", "_", "p", "a", "t", "h">>

opt_version == <<"-", "-", "v", "e", "r", "s", "i", "o", "n">>

opt_h == <<"-", "h">>

opt_help == <<"-", "-", "h", "e", "l", "p">>

opt_encode == <<"-", "-", "e", "n", "c", "o", "d", "e">>

opt_decode == <<"-", "-", "d", "e", "c", "o", "d", "e">>

opt_decode_raw == <<"-", "-", "d", "e", "c", "o", "d", "e", "_", "r", "a", "w">>

opt_descriptor_set_in == <<"-", "-", "d", "e", "s", "c", "r", "i", "p", "t", "o", "r", "_", "s", "e", "t", "_", "i", "n">>

opt_o == <<"-", "o">>

opt_descriptor_set_out == <<"-", "-", "d", "e", "s", "c", "r", "i", "p", "t", "o", "r", "_", "s", "e", "t", "_", "o", "u", "t">>

opt_include_imports == <<"-", "-", "i", "n", "c", "l", "u", "d", "e", "_", "i", "m", "p", "o", "r", "t", "s">>

opt_include_source_info == <<"-", "-", "i", "n", "c", "l", "u", "d", "e", "_", "s", "o", "u", "r", "c", "e", "_", "i", "n", "f", "o">>

opt_print_free_field_numbers == <<"-", "-", "p", "r", "i", "n", "t", "_", "f", "r", "e", "e", "_", "f", "i", "e", "l", "d", "_", "n", "u", "m", "b", "e", "r", "s">>

opt_plugin == <<"-", "-", "p", "l", "u", "g", "i", "n">>

\* part_001 170: the prefix of a plugin's name
PluginPrefix == <<"p", "r", "o", "t", "o", "c", "-", "g", "e", "n", "-">>

\* part_001 11-24: the zero value of protocOptions
ZeroOptions ==
    [includePaths |-> <<>>, encodeType |-> <<>>, decodeType |-> <<>>,
     decodeRaw |-> FALSE, inputDescriptors |-> <<>>, outputDescriptor |-> <<>>,
     includeImports |-> FALSE, includeSourceInfo |-> FALSE,
     printFreeFieldNumbers |-> FALSE, pluginDefs |-> <<>>, output |-> <<>>,
     protoFiles |-> <<>>]

\* a nil error
NoFlagErr == [msg |-> "", loc |-> <<>>, arg |-> <<>>]

\* an error: its text, the loc() in front of it, the value formatted into it
FlagErr(msg, loc, arg) == [msg |-> msg, loc |-> loc, arg |-> arg]

\* part_000 24
errVersion == FlagErr("__version_printed__", <<>>, <<>>)

\* part_000 25
errUsage == FlagErr("__usage_printed__", <<>>, <<>>)

\* part_001 28
CycleDetected == "cycle detected in option files"

\* m[k] = v on a Go map
Put(m, k, v) == [x \in DOMAIN m \cup {k} |-> IF x = k THEN v ELSE m[x]]

\* the paths at which a response file may be
ResponsePaths == {<<"f">>, <<"g">>}

Unreadable == <<"<unreadable>">>

\* what the response files hold
FileContents == {<<"a">>, <<"@", "f">>, <<"@", "g">>, <<" ", "a", " ", "\n", "-", "q">>, Unreadable}

\* the arguments a command line is made of
ArgTokens ==
    {<<"a">>,
     <<"@", "f">>,
     <<"@", "g">>,
     <<"-", "-">>,
     <<"-", "I">>,
     <<"-", "-", "x", "_", "o", "u", "t", "=", "o">>,
     <<"-", "-", "d", "e", "c", "o", "d", "e", "_", "r", "a", "w", "=", "T", "R", "U", "E">>,
     <<"-", "-", "v", "e", "r", "s", "i", "o", "n">>,
     <<"-", "q">>,
     <<"-", "-", "p", "l", "u", "g", "i", "n", "=", "p", "r", "o", "t", "o", "c", "-", "g", "e", "n", "-", "x", "=", "p">>}

\* os.ReadFile
ReadFile(path) ==
    IF path \in DOMAIN fs_files THEN fs_files[path] ELSE Unreadable

\* part_001 189-192: the trimmed lines of a response file
TrimmedLines(contents) ==
    LET lines == Split(contents, "\n")
    IN [k \in 1..Len(lines) |-> TrimSpace(lines[k])]

\* part_001 33-38: loc()
Loc(source, i) == IF source = <<>> THEN <<>> ELSE <<source, i + 1>>

\* part_001 51-60: getOptionArg
getOptionArg(parts, args, i, source) ==
    IF Len(parts) > 1 THEN [value |-> parts[2], i |-> i, err |-> NoFlagErr]
    ELSE IF Len(args) > i + 1 THEN [value |-> args[i + 2], i |-> i + 1, err |-> NoFlagErr]
    ELSE [value |-> <<>>, i |-> i,
          err |-> FlagErr("Missing value for flag", Loc(source, i), parts[1])]

\* part_001 61-74: getBoolArg
getBoolArg(parts, i, source) ==
    IF Len(parts) > 1
    THEN LET val == ToLower(parts[2])
         IN IF val = <<"t", "r", "u", "e">> THEN [value |-> TRUE, i |-> i, err |-> NoFlagErr]
            ELSE IF val = <<"f", "a", "l", "s", "e">> THEN [value |-> FALSE, i |-> i, err |-> NoFlagErr]
            ELSE [value |-> FALSE, i |-> i,
                  err |-> FlagErr("must be 'true' or 'false'", Loc(source, i), parts[1])]
    ELSE [value |-> TRUE, i |-> i, err |-> NoFlagErr]

\* part_001 75-80: noOptionArg
noOptionArg(parts, i, source) ==
    IF Len(parts) > 1
    THEN FlagErr("does not take a parameter", Loc(source, i), parts[1])
    ELSE NoFlagErr

\* part_001 26-211: parseFlags; st holds *opts, sourcesSeen, what was written
\* to stdout, and the error returned
RECURSIVE parseFlags(_, _, _)
RECURSIVE parseLoop(_, _, _, _)
parseFlags(source, args, st) ==
    IF source \in st.sourcesSeen
    THEN [st EXCEPT !.err = FlagErr(CycleDetected, <<>>, source)]
    ELSE parseLoop(source, args, 0, [st EXCEPT !.sourcesSeen = @ \cup {source}])

\* part_001 32-210: the loop over args, from index i on
parseLoop(source, args, i, st) ==
    IF i >= Len(args) THEN st
    ELSE
    LET a       == args[i + 1]
        parts   == SplitN2(a, "=")
        optArg  == getOptionArg(parts, args, i, source)
        boolArg == getBoolArg(parts, i, source)
        noArg   == noOptionArg(parts, i, source)
        Fail(e) == [st EXCEPT !.err = e]
        Store(field, r, v) ==
            IF r.err # NoFlagErr THEN Fail(r.err)
            ELSE parseLoop(source, args, r.i + 1, [st EXCEPT !.opts[field] = v])
        plDef   == SplitN2(optArg.value, "=")
        pluginName     == IF Len(plDef) = 1 THEN Base(plDef[1]) ELSE plDef[1]
        pluginLocation == IF Len(plDef) = 1 THEN plDef[1] ELSE plDef[2]
        file    == SliceFrom(a, 1)
        called  == parseFlags(file, TrimmedLines(ReadFile(file)), st)
    IN IF a = <<"-", "-">>
       THEN [st EXCEPT !.opts.protoFiles = @ \o SliceFrom(args, i + 1)]
       ELSE IF ~HasPrefix(a, <<"-">>)
       THEN parseLoop(source, args, i + 1, [st EXCEPT !.opts.protoFiles = Append(@, a)])
       ELSE IF parts[1] \in {opt_I, opt_proto_path}
       THEN Store("includePaths", optArg, Append(st.opts.includePaths, optArg.value))
       ELSE IF parts[1] = opt_version
       THEN IF noArg # NoFlagErr THEN Fail(noArg)
            ELSE [st EXCEPT !.stdout = Append(@, "version"), !.err = errVersion]
       ELSE IF parts[1] \in {opt_h, opt_help}
       THEN IF noArg # NoFlagErr THEN Fail(noArg)
            ELSE [st EXCEPT !.stdout = Append(@, "usage"), !.err = errUsage]
       ELSE IF parts[1] = opt_encode
       THEN Store("encodeType", optArg, optArg.value)
       ELSE IF parts[1] = opt_decode
       THEN Store("decodeType", optArg, optArg.value)
       ELSE IF parts[1] = opt_decode_raw
       THEN Store("decodeRaw", boolArg, boolArg.value)
       ELSE IF parts[1] = opt_descriptor_set_in
       THEN Store("inputDescriptors", optArg, Append(st.opts.inputDescriptors, optArg.value))
       ELSE IF parts[1] \in {opt_o, opt_descriptor_set_out}
       THEN Store("outputDescriptor", optArg, optArg.value)
       ELSE IF parts[1] = opt_include_imports
       THEN Store("includeImports", boolArg, boolArg.value)
       ELSE IF parts[1] = opt_include_source_info
       THEN Store("includeSourceInfo", boolArg, boolArg.value)
       ELSE IF parts[1] = opt_print_free_field_numbers
       THEN Store("printFreeFieldNumbers", boolArg, boolArg.value)
       ELSE IF parts[1] = opt_plugin
       THEN IF optArg.err # NoFlagErr THEN Fail(optArg.err)
            ELSE IF ~HasPrefix(pluginName, PluginPrefix)
            THEN Fail(FlagErr("plugin name is not valid", <<>>, pluginName))
            ELSE Store("pluginDefs", optArg,
                       Put(st.opts.pluginDefs,
                           SliceFrom(pluginName, Len(PluginPrefix)), pluginLocation))
       ELSE IF HasPrefix(a, <<"@">>)
       THEN IF noArg # NoFlagErr THEN Fail(noArg)
            ELSE IF ReadFile(file) = Unreadable
            THEN Fail(FlagErr("could not load option file", Loc(source, i), file))
            ELSE IF called.err # NoFlagErr THEN called
            ELSE parseLoop(source, args, i + 1, called)
       ELSE IF HasPrefix(parts[1], <<"-", "-">>) /\ HasSuffix(parts[1], <<"_", "o", "u", "t">>)
       THEN Store("output", optArg,
                  Put(st.opts.output, Slice(parts[1], 2, Len(parts[1]) - 4), optArg.value))
       ELSE Fail(FlagErr("unrecognized option", Loc(source, i), parts[1]))

\* the sequences over S of at most n members
SeqsUpTo(S, n) == UNION {[1..k -> S] : k \in 0..n}

\* a command line, and the response files on disk
FlagsInit ==
    /\ cmdline \in SeqsUpTo(ArgTokens, MaxArgs)
    /\ fs_files \in [ResponsePaths -> FileContents]
    /\ pf_pc = "start"
    /\ opts = ZeroOptions
    /\ sourcesSeen = {}
    /\ stdout = <<>>
    /\ pf_err = NoFlagErr

\* part_000 46-55: run calls parseFlags on the command line
Run_parseFlags ==
    /\ pf_pc = "start"
    /\ LET r == parseFlags(<<>>, cmdline,
                           [opts |-> ZeroOptions, sourcesSeen |-> {},
                            stdout |-> <<>>, err |-> NoFlagErr])
       IN /\ opts' = r.opts
          /\ sourcesSeen' = r.sourcesSeen
          /\ stdout' = r.stdout
          /\ pf_err' = r.err
    /\ pf_pc' = "done"
    /\ UNCHANGED <<cmdline, fs_files>>
    /\ FlagsFrame

FlagsNext == Run_parseFlags

\* -------------------------------------------------- the parser's claims

\* the argument at position k is a response-file token that parseFlags comes
\* to as an argument of its own: only file names stand before it, and the same
\* token does not stand again behind an option, as its value or after "--"
ResponseTokenAt(k) ==
    /\ k \in 1..Len(cmdline)
    /\ HasPrefix(cmdline[k], <<"@">>)
    /\ \A j \in 1..(k - 1) : ~HasPrefix(cmdline[j], <<"-">>) /\ ~HasPrefix(cmdline[j], <<"@">>)
    /\ \A j \in (k + 1)..Len(cmdline) :
           cmdline[j] = cmdline[k] => \A m \in (k + 1)..(j - 1) : ~HasPrefix(cmdline[m], <<"-">>)

\* the response files a file names, one per line
ReferencesOf(path) ==
    LET lines == TrimmedLines(ReadFile(path))
    IN {SliceFrom(lines[k], 1) : k \in {x \in 1..Len(lines) : HasPrefix(lines[x], <<"@">>)}}

\* a readable file whose lines are all references to response files
OnlyReferences(path) ==
    /\ ReadFile(path) # Unreadable
    /\ LET lines == TrimmedLines(ReadFile(path))
       IN \A k \in 1..Len(lines) : HasPrefix(lines[k], <<"@">>)

\* the files reached from the files of S by following references
RECURSIVE ReachedFrom(_)
ReachedFrom(S) ==
    LET T == S \cup UNION {ReferencesOf(p) : p \in S}
    IN IF T = S THEN S ELSE ReachedFrom(T)

\* every file reached from path holds only references: following them must
\* run into a file again
CycleFrom(path) == \A p \in ReachedFrom({path}) : OnlyReferences(p)

\* what parsing the lines of the file at path gives, entered from the command
\* line
ParsedFile(path) ==
    parseFlags(path, TrimmedLines(ReadFile(path)),
               [opts |-> ZeroOptions, sourcesSeen |-> {<<>>},
                stdout |-> <<>>, err |-> NoFlagErr])

\* C9: a token @path with a readable file is never recorded as a proto file,
\* and what the file lists takes effect: a command line of that token alone
\* gives the options and the error of the file's lines
C9_ResponseFileExpanded ==
    pf_pc = "done" =>
        \A k \in 1..Len(cmdline) :
            (ResponseTokenAt(k) /\ ReadFile(SliceFrom(cmdline[k], 1)) # Unreadable) =>
                /\ \A n \in 1..Len(opts.protoFiles) : opts.protoFiles[n] # cmdline[k]
                /\ Len(cmdline) = 1 =>
                       /\ opts = ParsedFile(SliceFrom(cmdline[k], 1)).opts
                       /\ pf_err = ParsedFile(SliceFrom(cmdline[k], 1)).err

\* C10: when the references of the response files run in a cycle, parsing ends
\* with the error "cycle detected in option files"
C10_CycleDetected ==
    pf_pc = "done" =>
        \A k \in 1..Len(cmdline) :
            (ResponseTokenAt(k) /\ CycleFrom(SliceFrom(cmdline[k], 1))) =>
                pf_err.msg = CycleDetected

\* ------------------------------------------------- run: the mode dispatch

\* part_000 58
ErrOneOfInputs == "Only one of --descriptor_set_in and --proto_path can be specified."

\* part_000 62
ErrMissingInput == "Missing input file."

\* part_000 64
ErrRawWithFiles == "When using --decode_raw, no input files should be given."

\* part_000 112
ErrEncodeAndGenerate == "Cannot use --encode and generate code or descriptors at the same time."

\* part_000 115
ErrDecodeAndGenerate == "Cannot use --decode and generate code or descriptors at the same time."

\* part_000 118
ErrEncodeAndDecode == "Only one of --encode and --decode can be specified."

\* part_000 133
ErrMissingOutput == "Missing output directives."

\* what a callee of run returns when it fails
ErrCallee == "<error of the callee>"

\* the options parseFlags may leave behind
ModeOptions ==
    {[ZeroOptions EXCEPT !.includePaths = ip, !.encodeType = et, !.decodeType = dt,
                         !.decodeRaw = dr, !.inputDescriptors = id,
                         !.outputDescriptor = od, !.includeSourceInfo = si,
                         !.printFreeFieldNumbers = pf, !.output = out,
                         !.protoFiles = files] :
        ip \in {<<>>, <<<<"p">>>>}, et \in {<<>>, <<"T">>}, dt \in {<<>>, <<"T">>},
        dr \in BOOLEAN, id \in {<<>>, <<<<"s">>>>}, od \in {<<>>, <<"d">>},
        si \in BOOLEAN, pf \in BOOLEAN,
        out \in {<<>>, Put(<<>>, <<"g", "o">>, <<"o">>)}, files \in {<<>>, <<<<"a">>>>}}

\* part_000 57-64: the tests on the inputs
InputError(o) ==
    IF Len(o.inputDescriptors) > 0 /\ Len(o.includePaths) > 0 THEN ErrOneOfInputs
    ELSE IF Len(o.protoFiles) = 0 /\ ~o.decodeRaw THEN ErrMissingInput
    ELSE IF Len(o.protoFiles) > 0 /\ o.decodeRaw THEN ErrRawWithFiles
    ELSE ""

\* part_000 109
doingCodeGen(o) == DOMAIN o.output # {} \/ o.outputDescriptor # <<>>

\* ModeError with the tests of lines 110-119 left out
ModeErrorNone(o) == ""

\* part_000 110-119: the combinations of modes that are refused
ModeError(o) ==
    IF doingCodeGen(o) /\ o.encodeType # <<>> THEN ErrEncodeAndGenerate
    ELSE IF doingCodeGen(o) /\ (o.decodeType # <<>> \/ o.decodeRaw) THEN ErrDecodeAndGenerate
    ELSE IF o.encodeType # <<>> /\ (o.decodeType # <<>> \/ o.decodeRaw) THEN ErrEncodeAndDecode
    ELSE ""

\* part_000 122-130: the case of the switch that is taken
ModeOf(o) ==
    IF o.encodeType # <<>> THEN "encode"
    ELSE IF o.decodeType # <<>> THEN "decode"
    ELSE IF o.decodeRaw THEN "decode_raw"
    ELSE IF o.printFreeFieldNumbers THEN "free_fields"
    ELSE "generate"

\* saveDescriptor whatever doCodeGen returned
SaveMayStartAlways(err, o) == o.outputDescriptor # <<>>

\* part_000 138: whether saveDescriptor is called
SaveMayStart(err, o) == err = "" /\ o.outputDescriptor # <<>>

\* the files doCodeGen writes
GeneratedFile == <<"o", "/", "g", "e", "n">>

\* parseFlags has returned nil
ModeInit ==
    /\ opts \in ModeOptions
    /\ cmdline = <<>>
    /\ fs_files = <<>>
    /\ pf_pc = "done"
    /\ sourcesSeen = {<<>>}
    /\ stdout = <<>>
    /\ pf_err = NoFlagErr
    /\ mode_pc = "inputs"
    /\ executed = {}
    /\ stdin_read = FALSE
    /\ plugins_ran = FALSE
    /\ written = {}
    /\ mode_err = ""
    /\ has_src_info = FALSE
    /\ stripped = FALSE
    /\ req_from_stripped = FALSE

\* part_000 57-64
RunCheckInputs ==
    /\ mode_pc = "inputs"
    /\ mode_err' = InputError(opts)
    /\ mode_pc' = IF InputError(opts) = "" THEN "load" ELSE "done"
    /\ UNCHANGED <<executed, stdin_read, plugins_ran, written, has_src_info,
                   stripped, req_from_stripped>>
    /\ ModeFrame

\* part_000 66-107: the descriptors are loaded from the descriptor sets or
\* parsed from source; ok is whether that succeeds, info whether the
\* descriptors of a set hold SourceCodeInfo
RunLoadFiles(ok, info) ==
    /\ mode_pc = "load"
    /\ IF Len(opts.protoFiles) = 0
       THEN /\ ok /\ ~info
            /\ mode_pc' = "modes"
            /\ UNCHANGED <<mode_err, has_src_info>>
       ELSE IF ~ok
       THEN /\ ~info
            /\ mode_err' = ErrCallee
            /\ mode_pc' = "done"
            /\ UNCHANGED has_src_info
       ELSE /\ Len(opts.inputDescriptors) = 0 =>
                info = (opts.includeSourceInfo \/ DOMAIN opts.output # {})
            /\ has_src_info' = info
            /\ mode_pc' = "modes"
            /\ UNCHANGED mode_err
    /\ UNCHANGED <<executed, stdin_read, plugins_ran, written, stripped, req_from_stripped>>
    /\ ModeFrame

\* part_000 109-119
RunCheckModes ==
    /\ mode_pc = "modes"
    /\ mode_err' = ModeError(opts)
    /\ mode_pc' = IF ModeError(opts) = "" THEN "dispatch" ELSE "done"
    /\ UNCHANGED <<executed, stdin_read, plugins_ran, written, has_src_info,
                   stripped, req_from_stripped>>
    /\ ModeFrame

\* part_000 123-128: doEncode, doDecode or doDecodeRaw, each reading stdin
RunCodec(ok) ==
    /\ mode_pc = "dispatch"
    /\ ModeOf(opts) \in {"encode", "decode", "decode_raw"}
    /\ executed' = executed \cup {ModeOf(opts)}
    /\ stdin_read' = TRUE
    /\ mode_err' = IF ok THEN "" ELSE ErrCallee
    /\ mode_pc' = "done"
    /\ UNCHANGED <<plugins_ran, written, has_src_info, stripped, req_from_stripped>>
    /\ ModeFrame

\* part_000 129-130: doPrintFreeFieldNumbers
RunPrintFreeFieldNumbers(ok) ==
    /\ mode_pc = "dispatch"
    /\ ModeOf(opts) = "free_fields"
    /\ executed' = executed \cup {"free_fields"}
    /\ mode_err' = IF ok THEN "" ELSE ErrCallee
    /\ mode_pc' = "done"
    /\ UNCHANGED <<stdin_read, plugins_ran, written, has_src_info, stripped,
                   req_from_stripped>>
    /\ ModeFrame

\* part_000 131-137: the default case up to the return of doCodeGen
RunCodeGen(ok) ==
    /\ mode_pc = "dispatch"
    /\ ModeOf(opts) = "generate"
    /\ IF ~doingCodeGen(opts)
       THEN /\ ok
            /\ mode_err' = ErrMissingOutput
            /\ mode_pc' = "done"
            /\ UNCHANGED <<executed, plugins_ran, written, req_from_stripped>>
       ELSE IF DOMAIN opts.output = {}
       THEN /\ ok
            /\ mode_pc' = "save"
            /\ UNCHANGED <<executed, plugins_ran, written, req_from_stripped, mode_err>>
       ELSE /\ executed' = executed \cup {"generate"}
            /\ plugins_ran' = TRUE
            /\ req_from_stripped' = (req_from_stripped \/ stripped)
            /\ written' = IF ok THEN written \cup {GeneratedFile} ELSE written
            /\ mode_err' = IF ok THEN "" ELSE ErrCallee
            /\ mode_pc' = "save"
    /\ UNCHANGED <<stdin_read, has_src_info, stripped>>
    /\ ModeFrame

\* part_000 138-141 and 299-349: saveDescriptor, when it is called, and the
\* return of run
RunSaveDescriptor(ok) ==
    /\ mode_pc = "save"
    /\ IF SaveMayStart(mode_err, opts)
       THEN /\ executed' = executed \cup {"generate"}
            /\ stripped' = (stripped \/ ~opts.includeSourceInfo)
            /\ written' = IF ok THEN written \cup {opts.outputDescriptor} ELSE written
            /\ mode_err' = IF ok THEN "" ELSE ErrCallee
       ELSE /\ ok
            /\ UNCHANGED <<executed, stripped, written, mode_err>>
    /\ mode_pc' = "done"
    /\ UNCHANGED <<stdin_read, plugins_ran, has_src_info, req_from_stripped>>
    /\ ModeFrame

ModeNext ==
    \/ RunCheckInputs
    \/ \E ok \in BOOLEAN, info \in BOOLEAN : RunLoadFiles(ok, info)
    \/ RunCheckModes
    \/ \E ok \in BOOLEAN : RunCodec(ok)
    \/ \E ok \in BOOLEAN : RunPrintFreeFieldNumbers(ok)
    \/ \E ok \in BOOLEAN : RunCodeGen(ok)
    \/ \E ok \in BOOLEAN : RunSaveDescriptor(ok)

\* ------------------------------------------------- the mode dispatch's claims

\* the combinations the claim names
RefusedCombination(o) ==
    \/ o.encodeType # <<>> /\ (o.decodeType # <<>> \/ o.decodeRaw)
    \/ /\ DOMAIN o.output # {} \/ o.outputDescriptor # <<>>
       /\ o.encodeType # <<>> \/ o.decodeType # <<>> \/ o.decodeRaw

UsageErrors ==
    {ErrOneOfInputs, ErrMissingInput, ErrRawWithFiles, ErrEncodeAndGenerate,
     ErrDecodeAndGenerate, ErrEncodeAndDecode}

C12_SaveAfterCodeGen ==
    /\ ~req_from_stripped
    /\ (DOMAIN opts.output # {} /\ (stripped \/ opts.outputDescriptor \in written)) =>
           /\ plugins_ran
           /\ GeneratedFile \in written
    /\ (mode_pc = "done" /\ plugins_ran /\ GeneratedFile \notin written) =>
           /\ opts.outputDescriptor \notin written
           /\ ~stripped

\* both were requested, the plugins ran and the descriptor set was then
\* written without its SourceCodeInfo
C12_Witness ==
    /\ mode_pc = "done"
    /\ DOMAIN opts.output # {}
    /\ plugins_ran
    /\ stripped
    /\ opts.outputDescriptor \in written

\* ------------------------------------------- loadDescriptors, saveDescriptor

\* how many FileDescriptorProtos the descriptor sets hold at most
MaxProtos == 3

\* a FileDescriptorProto: its name, its dependency list, and what tells it
\* from another proto of the same name
FileProto(name, dependency, body) == [name |-> name, dependency |-> dependency, body |-> body]

\* the protos the sets are made of
FileProtos ==
    {FileProto("a", <<>>, 1), FileProto("a", <<"b", "c">>, 2), FileProto("a", <<"b", "a">>, 3),
     FileProto("b", <<>>, 1), FileProto("b", <<"c">>, 2), FileProto("b", <<"a">>, 3),
     FileProto("c", <<>>, 1), FileProto("c", <<"a">>, 2), FileProto("c", <<"c">>, 3)}

\* the lists of requested files
InputLists == {<<"a">>, <<"b">>, <<"a", "b">>, <<"b", "a">>, <<"c", "a">>, <<"a", "a">>}

NoLoadErr == [kind |-> "", name |-> "", chain |-> <<>>]

LoadErr(kind, name, chain) == [kind |-> kind, name |-> name, chain |-> chain]

NotLoaded == [err |-> NoLoadErr, result |-> <<>>, linked |-> <<>>, created |-> <<>>]

\* part_000 244-250 with the later proto of a name replacing the earlier one
RECURSIVE AllFilesKeepLast(_, _)
AllFilesKeepLast(files, allFiles) ==
    IF files = <<>> THEN allFiles
    ELSE AllFilesKeepLast(Tail(files), Put(allFiles, Head(files).name, Head(files)))

\* part_000 244-250: the files of one set are put into allFiles, a name that
\* is there already is left alone
RECURSIVE AllFilesOfSet(_, _)
AllFilesOfSet(files, allFiles) ==
    IF files = <<>> THEN allFiles
    ELSE AllFilesOfSet(
             Tail(files),
             IF Head(files).name \in DOMAIN allFiles THEN allFiles
             ELSE Put(allFiles, Head(files).name, Head(files)))

\* part_000 235-251: the loop over the descriptor sets
RECURSIVE AllFiles(_, _)
AllFiles(sets, allFiles) ==
    IF sets = <<>> THEN allFiles
    ELSE AllFiles(Tail(sets), AllFilesOfSet(Head(sets), allFiles))

\* linkFile's chain without the name that is met again
CyclicChainOpen(seen, fileName) == seen

\* part_000 271-272: the chain of names a cyclic-imports error prints
CyclicChain(seen, fileName) == Append(seen, fileName)

\* part_000 268-297: linkFile; st holds linkedFds, the names given to
\* desc.CreateFileDescriptor so far, and the error returned
RECURSIVE linkFile(_, _, _, _)
RECURSIVE linkDeps(_, _, _, _)
linkFile(fileName, fds, st, seen) ==
    IF \E i \in 1..Len(seen) : seen[i] = fileName
    THEN [st EXCEPT !.err = LoadErr("cyclic imports", fileName, CyclicChain(seen, fileName))]
    ELSE IF fileName \in DOMAIN st.linked THEN st
    ELSE IF fileName \notin DOMAIN fds
    THEN [st EXCEPT !.err = LoadErr("could not find dependency", fileName, <<>>)]
    ELSE LET st1 == linkDeps(fds[fileName].dependency, fds, st, Append(seen, fileName))
         IN IF st1.err # NoLoadErr THEN st1
            ELSE [st1 EXCEPT !.linked = Put(@, fileName, fds[fileName]),
                             !.created = Append(@, fileName)]

\* part_000 285-291: the loop of linkFile over the dependencies
linkDeps(deps, fds, st, seen) ==
    IF deps = <<>> THEN st
    ELSE LET st1 == linkFile(Head(deps), fds, st, seen)
         IN IF st1.err # NoLoadErr THEN st1
            ELSE linkDeps(Tail(deps), fds, st1, seen)

\* part_000 254-264: the loop of loadDescriptors over the requested files
RECURSIVE linkInputs(_, _, _)
linkInputs(names, fds, st) ==
    IF names = <<>> THEN st
    ELSE IF Head(names) \notin DOMAIN fds
    THEN [st EXCEPT !.err = LoadErr("file not found", Head(names), <<>>), !.result = <<>>]
    ELSE LET st1 == linkFile(Head(names), fds, st, <<>>)
         IN IF st1.err # NoLoadErr THEN [st1 EXCEPT !.result = <<>>]
            ELSE linkInputs(Tail(names), fds, [st1 EXCEPT !.result = Append(@, Head(names))])

\* part_000 233-266: loadDescriptors
loadDescriptors(sets, names) == linkInputs(names, AllFiles(sets, <<>>), NotLoaded)

\* toFileDescriptorSet with the file appended before its dependencies
RECURSIVE toFileDescriptorSetEarly(_, _, _, _)
RECURSIVE depsToFileDescriptorSetEarly(_, _, _, _)
toFileDescriptorSetEarly(st, fileNames, fd, withImports) ==
    IF fd \in st.alreadySeen THEN st
    ELSE depsToFileDescriptorSetEarly(
             [alreadySeen |-> st.alreadySeen \cup {fd}, File |-> Append(st.File, fd)],
             fileNames, loaded.linked[fd].dependency, withImports)

depsToFileDescriptorSetEarly(st, fileNames, deps, withImports) ==
    IF deps = <<>> THEN st
    ELSE IF ~withImports /\ Head(deps) \notin fileNames
    THEN depsToFileDescriptorSetEarly(st, fileNames, Tail(deps), withImports)
    ELSE depsToFileDescriptorSetEarly(
             toFileDescriptorSetEarly(st, fileNames, Head(deps), withImports),
             fileNames, Tail(deps), withImports)

\* part_000 321-349: toFileDescriptorSet; st holds alreadySeen and fdSet.File
RECURSIVE toFileDescriptorSet(_, _, _, _)
RECURSIVE depsToFileDescriptorSet(_, _, _, _)
toFileDescriptorSet(st, fileNames, fd, withImports) ==
    IF fd \in st.alreadySeen THEN st
    ELSE LET st1 == depsToFileDescriptorSet(
                        [st EXCEPT !.alreadySeen = @ \cup {fd}],
                        fileNames, loaded.linked[fd].dependency, withImports)
         IN [st1 EXCEPT !.File = Append(@, fd)]

\* part_000 328-336: the loop of toFileDescriptorSet over the dependencies
depsToFileDescriptorSet(st, fileNames, deps, withImports) ==
    IF deps = <<>> THEN st
    ELSE IF ~withImports /\ Head(deps) \notin fileNames
    THEN depsToFileDescriptorSet(st, fileNames, Tail(deps), withImports)
    ELSE depsToFileDescriptorSet(
             toFileDescriptorSet(st, fileNames, Head(deps), withImports),
             fileNames, Tail(deps), withImports)

\* part_000 313-315: the loop of saveDescriptor over fds
RECURSIVE saveLoop(_, _, _, _)
saveLoop(st, fileNames, fds, withImports) ==
    IF fds = <<>> THEN st
    ELSE saveLoop(toFileDescriptorSet(st, fileNames, Head(fds), withImports),
                  fileNames, Tail(fds), withImports)

\* part_000 299-316: the file list saveDescriptor builds
saveDescriptor(fds, withImports) ==
    saveLoop([alreadySeen |-> {}, File |-> <<>>],
             {fds[i] : i \in 1..Len(fds)}, fds, withImports).File

\* the descriptor sets on disk: two sets, the first proto in the first set
DescInit ==
    /\ \E files \in SeqsUpTo(FileProtos, MaxProtos) :
           descSets = IF files = <<>> THEN <<<<>>, <<>>>>
                      ELSE <<<<Head(files)>>, Tail(files)>>
    /\ inputProtoFiles \in InputLists
    /\ desc_pc = "load"
    /\ loaded = NotLoaded
    /\ includeImports = FALSE
    /\ fdSet = <<>>

\* part_000 66-71: run calls loadDescriptors
LoadDescriptors ==
    /\ desc_pc = "load"
    /\ loaded' = loadDescriptors(descSets, inputProtoFiles)
    /\ desc_pc' = IF loaded'.err = NoLoadErr THEN "save" ELSE "done"
    /\ UNCHANGED <<descSets, inputProtoFiles, includeImports, fdSet>>
    /\ DescFrame

\* part_000 138-140: run calls saveDescriptor on the loaded descriptors
SaveDescriptor(withImports) ==
    /\ desc_pc = "save"
    /\ includeImports' = withImports
    /\ fdSet' = saveDescriptor(loaded.result, withImports)
    /\ desc_pc' = "done"
    /\ UNCHANGED <<descSets, inputProtoFiles, loaded>>
    /\ DescFrame

DescNext ==
    \/ LoadDescriptors
    \/ \E withImports \in BOOLEAN : SaveDescriptor(withImports)

\* ------------------------------------------- the descriptor sets' claims

\* the protos of all sets in input order
FlatProtos == descSets[1] \o descSets[2]

\* the first proto of a name in input order
FirstProto(name) ==
    FlatProtos[CHOOSE i \in 1..Len(FlatProtos) :
                   /\ FlatProtos[i].name = name
                   /\ \A j \in 1..(i - 1) : FlatProtos[j].name # name]

\* the protos that are the first of their name, in one set
FirstOccurrences ==
    SelectSeq(FlatProtos, LAMBDA p : p = FirstProto(p.name))

\* C14: every linked file is the first proto of its name in input order, and
\* loading gives what it gives when the later protos of a name are not there
C14_FirstOccurrenceKept ==
    desc_pc # "load" =>
        /\ \A n \in DOMAIN loaded.linked : loaded.linked[n] = FirstProto(n)
        /\ loaded = loadDescriptors(<<FirstOccurrences>>, inputProtoFiles)

\* a name that has two different protos, the second in the later set, was
\* linked
C14_Witness ==
    /\ desc_pc # "load"
    /\ loaded.err = NoLoadErr
    /\ \E p \in {descSets[2][i] : i \in 1..Len(descSets[2])} :
           /\ p.name = descSets[1][1].name
           /\ p # descSets[1][1]
           /\ p.name \in DOMAIN loaded.linked

\* the names the sets have a proto for
Present == {FlatProtos[i].name : i \in 1..Len(FlatProtos)}

\* the imports of a name, by the first proto of that name
ImportsOf(n) ==
    IF n \in Present
    THEN {FirstProto(n).dependency[i] : i \in 1..Len(FirstProto(n).dependency)}
    ELSE {}

\* the names reached from those of S by imports, S included
RECURSIVE ReachedByImports(_)
ReachedByImports(S) ==
    LET T == S \cup UNION {ImportsOf(n) : n \in S}
    IN IF T = S THEN S ELSE ReachedByImports(T)

Requested == {inputProtoFiles[i] : i \in 1..Len(inputProtoFiles)}

\* an import cycle is reached from a requested file
CycleReachable ==
    \E n \in ReachedByImports(Requested) : n \in ReachedByImports(ImportsOf(n))

\* a chain of import edges whose last name repeats an earlier one
IsCycleChain(chain) ==
    /\ Len(chain) >= 2
    /\ chain[1] \in Requested
    /\ \A i \in 1..(Len(chain) - 1) : chain[i + 1] \in ImportsOf(chain[i])
    /\ \E i \in 1..(Len(chain) - 1) : chain[i] = chain[Len(chain)]

\* the chain of a cyclic-imports error is such a chain, and no file is linked
\* twice
LinkedWell ==
    /\ loaded.err.kind = "cyclic imports" => IsCycleChain(loaded.err.chain)
    /\ \A i \in 1..Len(loaded.created), j \in 1..Len(loaded.created) :
           loaded.created[i] = loaded.created[j] => i = j

DepsOf(n) == {loaded.linked[n].dependency[i] : i \in 1..Len(loaded.linked[n].dependency)}

\* the files saveDescriptor is to emit
Selected ==
    IF includeImports THEN ReachedByImports({loaded.result[i] : i \in 1..Len(loaded.result)})
    ELSE {loaded.result[i] : i \in 1..Len(loaded.result)}

\* C16: the saved set holds each selected file once and after those of its
\* dependencies that are in the set; the selected files are the requested ones
\* without include-imports and their import closure with it
C16_SavedSetSorted ==
    desc_pc = "done" /\ loaded.err = NoLoadErr =>
        /\ {fdSet[i] : i \in 1..Len(fdSet)} = Selected
        /\ \A i \in 1..Len(fdSet), j \in 1..Len(fdSet) : fdSet[i] = fdSet[j] => i = j
        /\ \A i \in 1..Len(fdSet) :
               \A d \in DepsOf(fdSet[i]) \cap Selected :
                   \E j \in 1..(i - 1) : fdSet[j] = d

\* without include-imports a file was saved after a requested dependency of
\* it, and a dependency that was not requested was left out
C16_Witness ==
    /\ desc_pc = "done"
    /\ loaded.err = NoLoadErr
    /\ ~includeImports
    /\ \E i \in 1..Len(fdSet) :
           /\ DepsOf(fdSet[i]) \cap Selected # {}
           /\ DepsOf(fdSet[i]) \ Selected # {}

\* ------------------------------------------------ reader.go: decodeVarint

\* how many bytes may follow the first byte of a varint in the buffer
MaxFollow == 10

\* a uint64 as ten digits, least significant first: nine of 7 bits and the
\* bit 63
Zero64 == [k \in 1..10 |-> 0]

\* the size of digit k
DigitBase(k) == IF k = 10 THEN 2 ELSE 128

\* x + v * 2^(7(k-1)) modulo 2^64, for a v of at most 16 bits
RECURSIVE Add64(_, _, _)
Add64(x, k, v) ==
    IF k > 10 \/ v = 0 THEN x
    ELSE Add64([x EXCEPT ![k] = (x[k] + v) % DigitBase(k)], k + 1, (x[k] + v) \div DigitBase(k))

\* x - v * 2^(7(k-1)) modulo 2^64, for a v of at most 16 bits
RECURSIVE Sub64(_, _, _)
Sub64(x, k, v) ==
    IF k > 10 \/ v = 0 THEN x
    ELSE LET low    == v % DigitBase(k)
             borrow == IF x[k] < low THEN 1 ELSE 0
         IN Sub64([x EXCEPT ![k] = (x[k] + borrow * DigitBase(k)) - low],
                  k + 1, (v \div DigitBase(k)) + borrow)

\* x | v << 7(k-1), for a v of 7 bits and an x whose digit k is 0
Or64(x, k, v) == [x EXCEPT ![k] = v % DigitBase(k)]

\* io.ErrUnexpectedEOF and errOverflow (reader.go 14)
ErrUnexpectedEOF == "unexpected EOF"

errOverflow == "proto: integer overflow"

\* the result of a read: the value, the error, and cb.index afterwards
ReadResult(x, err, index) == [x |-> x, err |-> err, index |-> index]

NoVarint == ReadResult(Zero64, "", 0)

\* nothing printed, nothing returned
NoRaw ==
    [out |-> <<>>, err |-> "", index |-> 0, tags |-> <<>>, closed |-> <<>>, end |-> "returned"]

\* decodeVarintSlow with cb.index moved on when the buffer ends
RECURSIVE decodeVarintSlowMoving(_, _, _, _, _)
decodeVarintSlowMoving(b, index, i, shift, x) ==
    IF shift >= 64 THEN ReadResult(x, errOverflow, index)
    ELSE IF i >= Len(b) THEN ReadResult(x, ErrUnexpectedEOF, i)
    ELSE IF b[i + 1] < 128 THEN ReadResult(Or64(x, (shift \div 7) + 1, b[i + 1] % 128), "", i + 1)
    ELSE decodeVarintSlowMoving(b, index, i + 1, shift + 7,
                                Or64(x, (shift \div 7) + 1, b[i + 1] % 128))

\* reader.go 38-59: decodeVarintSlow, from its loop at byte i and shift on
RECURSIVE decodeVarintSlow(_, _, _, _, _)
decodeVarintSlow(b, index, i, shift, x) ==
    IF shift >= 64 THEN ReadResult(x, errOverflow, index)
    ELSE IF i >= Len(b) THEN ReadResult(x, ErrUnexpectedEOF, index)
    ELSE IF b[i + 1] < 128 THEN ReadResult(Or64(x, (shift \div 7) + 1, b[i + 1] % 128), "", i + 1)
    ELSE decodeVarintSlow(b, index, i + 1, shift + 7,
                          Or64(x, (shift \div 7) + 1, b[i + 1] % 128))

\* reader.go 80-148: the unrolled steps of decodeVarint, from the byte at i
\* that is added at digit k on; each is x += b << 7(k-1), then done or
\* x -= 0x80 << 7(k-1)
RECURSIVE decodeVarintFast(_, _, _, _, _)
decodeVarintFast(b, index, i, k, x) ==
    IF k > 10 THEN ReadResult(Zero64, errOverflow, index)
    ELSE LET added == Add64(x, k, b[i + 1])
         IN IF b[i + 1] < 128 THEN ReadResult(added, "", i + 1)
            ELSE IF k = 10 THEN ReadResult(Zero64, errOverflow, index)
            ELSE decodeVarintFast(b, index, i + 1, k + 1, Sub64(added, k, 128))

\* reader.go 64-160: decodeVarint
decodeVarint(b, index) ==
    IF index >= Len(b) THEN ReadResult(Zero64, ErrUnexpectedEOF, index)
    ELSE IF b[index + 1] < 128
    THEN ReadResult(Add64(Zero64, 1, b[index + 1]), "", index + 1)
    ELSE IF Len(b) - index < 10 THEN decodeVarintSlow(b, index, index, 0, Zero64)
    ELSE decodeVarintFast(b, index, index + 1, 2, Add64(Zero64, 1, b[index + 1] - 128))

\* the bytes a varint is made of here: with and without the continuation bit
ContinuedBytes == {128, 129, 255}

LastBytes == {0, 1, 2, 127}

\* a buffer: some bytes before the read position, then continued bytes, a
\* last byte or none, and bytes after it
VarintBuffers ==
    {[i \in 1..(pre + n) |-> c] \o tail \o [i \in 1..post |-> c] :
        pre \in 0..1, n \in 0..MaxFollow, c \in ContinuedBytes,
        tail \in {<<>>} \cup {<<l>> : l \in LastBytes}, post \in {0, 1, 9}}

VarintInit ==
    /\ buf \in VarintBuffers
    /\ cb_index \in 0..1
    /\ cb_index <= Len(buf)
    /\ raw_pc = "varint"
    /\ varint = NoVarint
    /\ raw = NoRaw

\* a call of decodeVarint at cb.index
DecodeVarint ==
    /\ raw_pc = "varint"
    /\ varint' = decodeVarint(buf, cb_index)
    /\ raw_pc' = "done"
    /\ UNCHANGED <<buf, cb_index, raw>>
    /\ RawFrame

VarintNext == DecodeVarint

\* ------------------------------------------------ decodeVarint's claims

\* the number of bytes with the continuation bit from the read position on
RECURSIVE Continued(_, _)
Continued(b, i) ==
    IF i >= Len(b) \/ b[i + 1] < 128 THEN 0 ELSE 1 + Continued(b, i + 1)

\* the reference decoder: the 7-bit groups of the bytes, least significant
\* first, modulo 2^64
GroupsOf(b, i, n) ==
    [k \in 1..10 |-> IF k <= n THEN (b[i + k] % 128) % DigitBase(k) ELSE 0]

\* the reference base-128 decoder limited to 10 bytes
ReferenceVarint(b, i) ==
    LET c == Continued(b, i)
    IN IF c >= 10 THEN ReadResult(Zero64, errOverflow, i)
       ELSE IF i + c >= Len(b) THEN ReadResult(Zero64, ErrUnexpectedEOF, i)
       ELSE ReadResult(GroupsOf(b, i, c + 1), "", i + c + 1)

\* C20: decodeVarint returns what the reference decoder returns, the same
\* value, error and position, on either path; on an error the position is
\* unchanged
C20_VarintAgreesWithReference ==
    raw_pc = "done" =>
        /\ varint.err = ReferenceVarint(buf, cb_index).err
        /\ varint.index = ReferenceVarint(buf, cb_index).index
        /\ varint.err = "" => varint.x = ReferenceVarint(buf, cb_index).x
        /\ varint.err # "" => varint.index = cb_index

\* a varint of ten bytes was decoded on the fast path, its bit 63 set
C20_Witness ==
    /\ raw_pc = "done"
    /\ varint.err = ""
    /\ varint.index = cb_index + 10
    /\ varint.x[10] = 1
    /\ varint.x[9] = 127

\* ---------------------------------------------- codec.go: decodeRawMessage

\* how many pieces the input is made of at most
MaxPieces == 3

\* reader.go 254
maxTag == 536870911

\* reader.go 258
specialReservedStart == 19000

\* reader.go 261
specialReservedEnd == 19999

ErrEndGroup == "input contains unexpected 'end group' wire type"

ErrIllegalTag == "input contains illegal tag number"

ErrWireType == "input contained invalid wire type"

ErrTagRange == "tag number out of range"

ErrByteLength == "proto: bad byte length"

\* the printable ASCII characters, from 0x20 on; the grave accent, which a
\* string of this language cannot hold, is written <0x60>
Ascii ==
    <<" ", "!", "\"", "#", "$", "%", "&", "'", "(", ")", "*", "+", ",", "-", ".", "/",
      "0", "1", "2", "3", "4", "5", "6", "7", "8", "9", ":", ";", "<", "=", ">", "?",
      "@", "A", "B", "C", "D", "E", "F", "G", "H", "I", "J", "K", "L", "M", "N", "O",
      "P", "Q", "R", "S", "T", "U", "V", "W", "X", "Y", "Z", "[", "\\", "]", "^", "_",
      "<0x60>", "a", "b", "c", "d", "e", "f", "g", "h", "i", "j", "k", "l", "m", "n", "o",
      "p", "q", "r", "s", "t", "u", "v", "w", "x", "y", "z", "{", "|", "}", "~">>

\* %d of a number that is not negative
RECURSIVE Decimal(_)
Decimal(n) ==
    IF n < 10 THEN <<Ascii[n + 17]>> ELSE Decimal(n \div 10) \o <<Ascii[(n % 10) + 17]>>

\* \%03o of a byte
Octal(c) == <<"\\", Ascii[(c \div 64) + 17], Ascii[((c \div 8) % 8) + 17], Ascii[(c % 8) + 17]>>

\* a uint64 below 2^31 as a number
Small64(x) == (\A k \in 6..10 : x[k] = 0) /\ x[5] < 8

Int64(x) == x[1] + x[2] * 128 + x[3] * 16384 + x[4] * 2097152 + x[5] * 268435456

\* %d of a uint64; the digits of a value of 2^31 and more are not worked out
FormatUint64(x) == IF Small64(x) THEN Decimal(Int64(x)) ELSE <<"<uint64 of 2^31 and more>">>

\* codec.go 188-220: quoteString
RECURSIVE quoteStringBody(_)
quoteStringBody(str) ==
    IF str = <<>> THEN <<>>
    ELSE LET c == Head(str)
         IN (IF c = 10 THEN <<"\\", "n">>
             ELSE IF c = 13 THEN <<"\\", "r">>
             ELSE IF c = 9 THEN <<"\\", "t">>
             ELSE IF c = 34 THEN <<"\\">>
             ELSE IF c = 92 THEN <<"\\", "\\">>
             ELSE IF c >= 32 /\ c < 127 THEN <<Ascii[c - 31]>>
             ELSE Octal(c)) \o quoteStringBody(Tail(str))

quoteString(str) == <<"\"">> \o quoteStringBody(str) \o <<"\"">>

\* codec.go 222-235: quoteBytes
RECURSIVE quoteBytesBody(_)
quoteBytesBody(b) ==
    IF b = <<>> THEN <<>> ELSE Octal(Head(b)) \o quoteBytesBody(Tail(b))

quoteBytes(b) == <<"\"">> \o quoteBytesBody(b) \o <<"\"">>

\* reader.go 331-340: isProbablyString, with utf8.DecodeRune on sequences of
\* one and two bytes; the inputs hold no sequence of three or four bytes, and
\* a byte that begins no sequence decodes to utf8.RuneError
RECURSIVE isProbablyString(_)
isProbablyString(data) ==
    IF data = <<>> THEN TRUE
    ELSE IF Head(data) < 128 THEN isProbablyString(Tail(data))
    ELSE IF /\ Head(data) >= 194 /\ Head(data) <= 223 /\ Len(data) >= 2
            /\ data[2] >= 128 /\ data[2] <= 191
    THEN isProbablyString(Tail(Tail(data)))
    ELSE FALSE

\* reader.go 162-178: decodeTagAndWireType
decodeTagAndWireType(b, index) ==
    LET v == decodeVarint(b, index)
    IN IF v.err # "" THEN [tag |-> 0, wt |-> 0, err |-> v.err, index |-> v.index]
       ELSE IF (\E k \in 6..10 : v.x[k] # 0) \/ v.x[5] >= 64
       THEN [tag |-> 0, wt |-> v.x[1] % 8, err |-> ErrTagRange, index |-> v.index]
       ELSE [tag |-> (v.x[1] \div 8) + v.x[2] * 16 + v.x[3] * 2048
                        + v.x[4] * 262144 + v.x[5] * 33554432,
             wt |-> v.x[1] % 8, err |-> "", index |-> v.index]

\* reader.go 183-223: decodeFixed64 and decodeFixed32, n the number of bytes
decodeFixed(b, index, n) ==
    IF index + n > Len(b) THEN [v |-> <<>>, err |-> ErrUnexpectedEOF, index |-> index]
    ELSE [v |-> Slice(b, index, index + n), err |-> "", index |-> index + n]

\* a length of at most 28 bits as a number; a longer one is longer than any
\* buffer here
LengthOf(x, most) == IF \A k \in 5..10 : x[k] = 0 THEN Int64(x) ELSE most + 1

\* reader.go 225-250: decodeRawBytes(false)
decodeRawBytes(b, index) ==
    LET n == decodeVarint(b, index)
        nb == LengthOf(n.x, Len(b))
    IN IF n.err # "" THEN [v |-> <<>>, err |-> n.err, index |-> n.index]
       ELSE IF n.x[10] = 1 THEN [v |-> <<>>, err |-> ErrByteLength, index |-> n.index]
       ELSE IF n.index + nb > Len(b)
       THEN [v |-> <<>>, err |-> ErrUnexpectedEOF, index |-> n.index]
       ELSE [v |-> Slice(b, n.index, n.index + nb), err |-> "", index |-> n.index + nb]

\* codec.go 113-118, reader.go 282-287: the test of the field number
IllegalTag(t) ==
    \/ t < 1 \/ t > maxTag
    \/ t >= specialReservedStart /\ t <= specialReservedEnd

\* reader.go 289-303: the index behind the varint that is skipped, or -1
SkipVarint(b, index) ==
    LET ends == {i \in index..(index + 9) : i < Len(b) /\ b[i + 1] < 128}
    IN IF ends = {} THEN -1
       ELSE LET i == CHOOSE e \in ends : \A f \in ends : e <= f
            IN IF \A j \in index..(i - 1) : j < Len(b) THEN i + 1 ELSE -1

\* the low 28 bits of a 64-bit number
Low28(x) == x[1] + 128 * x[2] + 16384 * x[3] + 2097152 * x[4]

\* reader.go 29-36: skip(int(l)) for the 64-bit number x at a position from 0
\* to len(buf). The count is x as a signed 64-bit integer, and newIndex is
\* cb.index + count in 64 bits: a count of 2^63 and more is negative, and a
\* sum of 2^63 and more is negative as well; only newIndex > len(buf) is
\* refused. An index below -2^28 is given as -2^28.
skip(b, index, x) ==
    LET ones == \A k \in 5..9 : x[k] = 127
        newIndex ==
            IF \A k \in 5..10 : x[k] = 0 THEN index + Low28(x)
            ELSE IF x[10] = 1
            THEN IF ones THEN index + Low28(x) - 268435456 ELSE -268435456
            ELSE IF ones /\ index + Low28(x) >= 268435456 THEN -268435456
            ELSE Len(b) + 1
    IN IF newIndex > Len(b) THEN [ok |-> FALSE, index |-> index]
       ELSE [ok |-> TRUE, index |-> newIndex]

\* reader.go 269-329: codedReader.isProbablyMessage, from index on. The
\* result says how the call ends: it returns, it panics (a read at a negative
\* index, reader.go 69-71) or it never returns: seen holds the positions (with
\* inGroup) of the turns of the loop so far in this call and the calls it is
\* nested in, and a turn at one of them repeats what followed it
RECURSIVE probablyMessage(_, _, _, _)
probablyMessage(b, index, inGroup, seen) ==
    IF <<index, inGroup>> \in seen THEN [ok |-> FALSE, index |-> index, end |-> "never"]
    ELSE IF index < 0 THEN [ok |-> FALSE, index |-> index, end |-> "panic"]
    ELSE IF index >= Len(b) THEN [ok |-> ~inGroup, index |-> index, end |-> "returned"]
    ELSE LET tw == decodeTagAndWireType(b, index)
             no == [ok |-> FALSE, index |-> tw.index, end |-> "returned"]
             now == seen \cup {<<index, inGroup>>}
             l  == decodeVarint(b, tw.index)
             sk == skip(b, l.index, l.x)
             g  == probablyMessage(b, tw.index, TRUE, now)
         IN IF tw.err # "" THEN no
            ELSE IF tw.wt = 4 THEN [ok |-> inGroup, index |-> tw.index, end |-> "returned"]
            ELSE IF IllegalTag(tw.tag) THEN no
            ELSE IF tw.wt = 0
            THEN IF SkipVarint(b, tw.index) < 0 THEN no
                 ELSE probablyMessage(b, SkipVarint(b, tw.index), inGroup, now)
            ELSE IF tw.wt = 5
            THEN IF tw.index + 4 > Len(b) THEN no
                 ELSE probablyMessage(b, tw.index + 4, inGroup, now)
            ELSE IF tw.wt = 1
            THEN IF tw.index + 8 > Len(b) THEN no
                 ELSE probablyMessage(b, tw.index + 8, inGroup, now)
            ELSE IF tw.wt = 2
            THEN IF l.err # "" \/ ~sk.ok THEN no
                 ELSE probablyMessage(b, sk.index, inGroup, now)
            ELSE IF tw.wt = 3
            THEN IF g.end # "returned" THEN g
                 ELSE IF ~g.ok THEN no
                 ELSE probablyMessage(b, g.index, inGroup, now)
            ELSE no

\* reader.go 264-266: isProbablyMessage, with the way the call ends
isProbablyMessageCall(data) == probablyMessage(data, 0, FALSE, {})

isProbablyMessage(data) == isProbablyMessageCall(data).ok

\* the text of %f; the digits of a float are not worked out
FormatFloat(v) == <<"<float of ", v, ">">>

\* codec.go 95-186: decodeRawMessage; st holds what was written to w, and for
\* the claims the tags read and the field numbers of the start-group and
\* end-group tags of every group that was closed
RECURSIVE decodeRawMessage(_, _, _, _, _)
decodeRawMessage(b, index, st, indent, inGroup) ==
    IF index >= Len(b)
    THEN [st EXCEPT !.index = index, !.err = IF inGroup THEN ErrUnexpectedEOF ELSE ""]
    ELSE
    LET tw   == decodeTagAndWireType(b, index)
        read == [st EXCEPT !.index = tw.index,
                           !.tags = Append(@, [t |-> IF tw.err # "" THEN -1 ELSE tw.tag,
                                               wt |-> tw.wt, inGroup |-> inGroup])]
        Fail(e) == [read EXCEPT !.err = e]
        Line(text) == [read EXCEPT !.out = @ \o indent \o Decimal(tw.tag) \o text \o NL]
        v    == decodeVarint(b, tw.index)
        f32  == decodeFixed(b, tw.index, 4)
        f64  == decodeFixed(b, tw.index, 8)
        bs   == decodeRawBytes(b, tw.index)
        nested == decodeRawMessage(bs.v, 0, Line(<<":", " ", "<">>), indent \o <<" ", " ">>, FALSE)
        group  == decodeRawMessage(b, tw.index, Line(<<" ", "{">>), indent \o <<" ", " ">>, TRUE)
    IN IF tw.err # "" THEN Fail(tw.err)
       ELSE IF tw.wt = 4
       THEN IF inGroup THEN read ELSE Fail(ErrEndGroup)
       ELSE IF IllegalTag(tw.tag) THEN Fail(ErrIllegalTag)
       ELSE IF tw.wt = 0
       THEN IF v.err # "" THEN Fail(v.err)
            ELSE decodeRawMessage(b, v.index, Line(<<":", " ">> \o FormatUint64(v.x)),
                                  indent, inGroup)
       ELSE IF tw.wt = 5
       THEN IF f32.err # "" THEN Fail(f32.err)
            ELSE decodeRawMessage(b, f32.index, Line(<<":", " ">> \o FormatFloat(f32.v)),
                                  indent, inGroup)
       ELSE IF tw.wt = 1
       THEN IF f64.err # "" THEN Fail(f64.err)
            ELSE decodeRawMessage(b, f64.index, Line(<<":", " ">> \o FormatFloat(f64.v)),
                                  indent, inGroup)
       ELSE IF tw.wt = 2
       THEN IF bs.err # "" THEN Fail(bs.err)
            ELSE IF isProbablyMessageCall(bs.v).end # "returned"
            THEN [read EXCEPT !.end = isProbablyMessageCall(bs.v).end]
            ELSE IF isProbablyMessage(bs.v)
            THEN IF nested.err # "" \/ nested.end # "returned" THEN nested
                 ELSE decodeRawMessage(b, bs.index,
                                       [nested EXCEPT !.out = @ \o indent \o <<">">> \o NL],
                                       indent, inGroup)
            ELSE IF isProbablyString(bs.v)
            THEN decodeRawMessage(b, bs.index, Line(<<":", " ">> \o quoteString(bs.v)),
                                  indent, inGroup)
            ELSE decodeRawMessage(b, bs.index, Line(<<":", " ">> \o quoteBytes(bs.v)),
                                  indent, inGroup)
       ELSE IF tw.wt = 3
       THEN IF group.err # "" \/ group.end # "returned" THEN group
            ELSE decodeRawMessage(
                     b, group.index,
                     [group EXCEPT !.out = @ \o indent \o <<"}">> \o NL,
                                   !.closed = Append(@, <<tw.tag, group.tags[Len(group.tags)].t>>)],
                     indent, inGroup)
       ELSE Fail(ErrWireType)

\* the pieces the inputs are made of: field 1 varint 42; field 2 bytes "hi";
\* start group 1; end group 1; end group 2; end group 0; field 0 varint;
\* field 19000 varint; end group 19000; field 2^29 varint; field 2 bytes 0xFF;
\* field 2 bytes (start group 1, end group 0); field 1 fixed32; field 3
\* bytes (field 1 varint 42); wire type 7; field 2 bytes (field 1 bytes of
\* length 5, 2^64-11, 2^64-12 and 2^63-1)
Pieces ==
    {<<8, 42>>, <<18, 2, 104, 105>>, <<11>>, <<12>>, <<20>>, <<4>>, <<0, 1>>,
     <<192, 163, 9, 1>>, <<196, 163, 9>>, <<128, 128, 128, 128, 16, 0>>,
     <<18, 1, 255>>, <<18, 2, 11, 4>>, <<13, 1, 2, 3, 4>>, <<26, 2, 8, 42>>, <<15>>,
     <<18, 2, 10, 5>>,
     <<18, 11, 10, 245, 255, 255, 255, 255, 255, 255, 255, 255, 1>>,
     <<18, 11, 10, 244, 255, 255, 255, 255, 255, 255, 255, 255, 1>>,
     <<18, 10, 10, 255, 255, 255, 255, 255, 255, 255, 255, 127>>}

\* pieces put one after the other
RECURSIVE Joined(_)
Joined(pieces) == IF pieces = <<>> THEN <<>> ELSE Head(pieces) \o Joined(Tail(pieces))

\* the bytes on stdin
RawInit ==
    /\ buf \in {Joined(ps) : ps \in SeqsUpTo(Pieces, MaxPieces)}
    /\ cb_index = 0
    /\ raw_pc = "raw"
    /\ varint = NoVarint
    /\ raw = NoRaw

\* codec.go 86-93: doDecodeRaw; a call that never returns stays "running"
DoDecodeRaw ==
    /\ raw_pc = "raw"
    /\ raw' = decodeRawMessage(buf, 0, NoRaw, <<>>, FALSE)
    /\ raw_pc' = IF raw'.end = "returned" THEN "done"
                 ELSE IF raw'.end = "panic" THEN "panic" ELSE "running"
    /\ UNCHANGED <<buf, cb_index, varint>>
    /\ RawFrame

RawNext == DoDecodeRaw

\* ------------------------------------------------ the raw decoder's claims

\* the six bytes 08 2A 12 02 68 69
BytesOfS1 == <<8, 42, 18, 2, 104, 105>>

\* C17: the raw decoding of 08 2A 12 02 68 69 prints 1: 42 and 2: "hi", each
\* on its line, the two bytes of field 2 as a string
C17_TwoBytesPrintedAsString ==
    (raw_pc = "done" /\ buf = BytesOfS1) =>
        /\ raw.err = ""
        /\ raw.out = <<"1", ":", " ", "4", "2", "\n",
                       "2", ":", " ", "\"", "h", "i", "\"", "\n">>

\* the field number of a tag is outside [1, 2^29-1] or inside [19000, 19999];
\* -1 stands for a number beyond int32
IllegalFieldNumber(t) == t < 1 \/ t > 536870911 \/ (t >= 19000 /\ t <= 19999)

\* C18: a tag whose field number is illegal, whatever its wire type and
\* wherever it is read, ends the decoding with an error
C18_IllegalFieldNumberRejected ==
    raw_pc = "done" =>
        \A i \in 1..Len(raw.tags) :
            IllegalFieldNumber(raw.tags[i].t) => (raw.err # "" /\ i = Len(raw.tags))

\* C19: a group is closed only by the end-group tag of its own field number,
\* an end-group tag outside a group is refused with the 'end group' error,
\* and an input that ends inside a group is refused
C19_GroupsBracketed ==
    raw_pc = "done" =>
        /\ \A i \in 1..Len(raw.closed) : raw.closed[i][1] = raw.closed[i][2]
        /\ \A i \in 1..Len(raw.tags) :
               (raw.tags[i].wt = 4 /\ ~raw.tags[i].inGroup) =>
                   (raw.err = ErrEndGroup /\ i = Len(raw.tags))
        /\ raw.err = "" =>
               Cardinality({i \in 1..Len(raw.tags) : raw.tags[i].wt = 3})
                   = Len(raw.closed)

\* C30: doDecodeRaw returns on every input, with success or an error, and the
\* position of the reader stays from 0 to the length of the buffer, also when
\* the heuristic meets a nested length larger than the rest of the bytes or
\* one that is negative as a signed integer
C30_DecodeRawTerminates ==
    raw_pc # "raw" =>
        /\ raw.end = "returned"
        /\ raw_pc = "done"
        /\ raw.index >= 0 /\ raw.index <= Len(buf)

\* --------------------------------------------- reader.go: computeFreeRanges

\* how many used ranges a message has at most
MaxRanges == 3

\* the small field numbers of the messages
MaxNum == 3

\* reader.go 426-428: tagRange
tagRange(start, end) == [start |-> start, end |-> end]

\* a message without fields and ranges
NoMessageDescriptor == [fields |-> <<>>, reserved |-> <<>>, extensions |-> <<>>]

\* the field numbers of the messages
FieldNumbers == (1..MaxNum) \cup {maxTag}

\* reserved ranges as the descriptor holds them, the end exclusive
ReservedRanges ==
    {tagRange(a, b) : a \in 1..MaxNum, b \in 2..(MaxNum + 1)} \cup {tagRange(MaxNum, maxTag + 1)}

\* extension ranges as desc.MessageDescriptor gives them, the end inclusive
ExtensionRanges ==
    {tagRange(a, b) : a \in 1..MaxNum, b \in 1..MaxNum} \cup {tagRange(2, maxTag)}

\* the messages: the ranges of a descriptor are well formed each by itself
\* (start below the exclusive end, start at most the inclusive end); nothing
\* on the way from a descriptor set to md compares one range with another
MessageDescriptors ==
    UNION {UNION {{[fields |-> f, reserved |-> r, extensions |-> x] :
                      x \in SeqsUpTo({er \in ExtensionRanges : er.start <= er.end},
                                     MaxRanges - Len(f) - Len(r))} :
                  r \in SeqsUpTo({rr \in ReservedRanges : rr.start < rr.end},
                                 MaxRanges - Len(f))} :
           f \in SeqsUpTo(FieldNumbers, MaxRanges)}

\* reader.go 394-404: the used ranges in the order they are appended
usedRanges(m) ==
    [i \in 1..Len(m.fields) |-> tagRange(m.fields[i], m.fields[i])]
        \o [i \in 1..Len(m.reserved) |-> tagRange(m.reserved[i].start, m.reserved[i].end - 1)]
        \o m.extensions

\* reader.go 406-408: what sort.Slice may leave: a permutation of the ranges
\* in which no range stands before one of a smaller start (the sort is not
\* stable)
SortedByStart(u) ==
    {[i \in 1..Len(u) |-> u[p[i]]] :
        p \in {q \in [1..Len(u) -> 1..Len(u)] :
                  /\ \A i, j \in 1..Len(u) : i # j => q[i] # q[j]
                  /\ \A i, j \in 1..Len(u) : i < j => u[q[i]].start <= u[q[j]].start}}

\* reader.go 410-423: the sweep over the sorted ranges
RECURSIVE sweep(_, _, _, _)
sweep(u, i, last, out) ==
    IF i > Len(u)
    THEN IF last < maxTag THEN Append(out, tagRange(last + 1, maxTag)) ELSE out
    ELSE IF u[i].start <= last + 1
    THEN sweep(u, i + 1, u[i].end, out)
    ELSE sweep(u, i + 1, u[i].end, Append(out, tagRange(last + 1, u[i].start - 1)))

FreeInit ==
    /\ md \in MessageDescriptors
    /\ free_pc = "compute"
    /\ used = <<>>
    /\ unused = <<>>

\* reader.go 393-424: computeFreeRanges
ComputeFreeRanges ==
    /\ free_pc = "compute"
    /\ \E sorted \in SortedByStart(usedRanges(md)) :
           /\ used' = sorted
           /\ unused' = sweep(sorted, 1, 0, <<>>)
    /\ free_pc' = "done"
    /\ UNCHANGED md
    /\ FreeFrame

FreeNext == ComputeFreeRanges

\* ------------------------------------------- computeFreeRanges's claims

\* the numbers on which a range list is looked at: every start and end of a
\* range of the messages is among them or next to one of them
ProbeNumbers == (1..(MaxNum + 2)) \cup {maxTag - 1, maxTag}

\* n is a field number, or in a reserved range or an extension range
IsUsed(m, n) ==
    \/ \E i \in 1..Len(m.fields) : m.fields[i] = n
    \/ \E i \in 1..Len(m.reserved) : m.reserved[i].start <= n /\ n < m.reserved[i].end
    \/ \E i \in 1..Len(m.extensions) : m.extensions[i].start <= n /\ n <= m.extensions[i].end

\* n is in one of the ranges
IsFree(ranges, n) == \E i \in 1..Len(ranges) : ranges[i].start <= n /\ n <= ranges[i].end

\* the ranges are not empty, lie in [1, maxTag], ascend and do not meet
AscendingDisjoint(ranges) ==
    /\ \A i \in 1..Len(ranges) :
           1 <= ranges[i].start /\ ranges[i].start <= ranges[i].end /\ ranges[i].end <= maxTag
    /\ \A i \in 1..(Len(ranges) - 1) : ranges[i].end < ranges[i + 1].start

\* C21: the free ranges are the complement in [1, maxTag] of the field
\* numbers, reserved ranges and extension ranges, ascending and disjoint,
\* for every list of used ranges
C21_FreeIsComplement ==
    free_pc = "done" =>
        /\ AscendingDisjoint(unused)
        /\ \A n \in ProbeNumbers : IsFree(unused, n) <=> ~IsUsed(md, n)

\* no used range of the list lies inside another one or shares its start
\* with another one
NoNestedRanges(u) ==
    \A i, j \in 1..Len(u) :
        i # j => ~(u[i].start <= u[j].start /\ u[j].end <= u[i].end)

\* the complement is computed for the lists without nested ranges
C21_FreeIsComplementUnlessNested ==
    (free_pc = "done" /\ NoNestedRanges(used)) =>
        /\ AscendingDisjoint(unused)
        /\ \A n \in ProbeNumbers : IsFree(unused, n) <=> ~IsUsed(md, n)

\* --------------------------------- codegen.go: doCodeGen, writeArchiveResult

\* how many files a plugin creates at most
MaxOutputs == 2

\* the output keys of a run
EmitLangs == {"java", "gox"}

\* the output locations: a directory, a zip and a jar
EmitLocations ==
    {[path |-> <<"/", "c", "w", "d", "/", "o">>, locationType |-> "dir"],
     [path |-> <<"/", "c", "w", "d", "/", "o", ".", "z", "i", "p">>, locationType |-> "zip"],
     [path |-> <<"/", "c", "w", "d", "/", "o", ".", "j", "a", "r">>, locationType |-> "jar"]}

\* the relative names of generated files; in the order of bytes B is before
\* a, a before a/b, and a/b before ab
GeneratedNames == {<<"a">>, <<"B">>, <<"a", "/", "b">>, <<"a", "b">>}

\* the number of a character
Ord(c) == CHOOSE i \in 1..Len(Ascii) : Ascii[i] = c

\* a < b for strings, as Go compares them: byte by byte
RECURSIVE Less(_, _)
Less(a, b) ==
    IF b = <<>> THEN FALSE
    ELSE IF a = <<>> THEN TRUE
    ELSE IF Head(a) # Head(b) THEN Ord(Head(a)) < Ord(Head(b))
    ELSE Less(Tail(a), Tail(b))

\* the names from the largest to the smallest
RECURSIVE SortStringsDescending(_)
SortStringsDescending(S) ==
    IF S = {} THEN <<>>
    ELSE LET m == CHOOSE x \in S : \A y \in S : ~Less(x, y)
         IN <<m>> \o SortStringsDescending(S \ {m})

\* codegen.go 301-305: the names of the map, then sort.Strings
RECURSIVE SortStrings(_)
SortStrings(S) ==
    IF S = {} THEN <<>>
    ELSE LET m == CHOOSE x \in S : \A y \in S : ~Less(y, x)
         IN <<m>> \o SortStrings(S \ {m})

\* codegen.go 273
ManifestName == <<"M", "E", "T", "A", "-", "I", "N", "F", "/", "M", "A", "N", "I", "F", "E", "S", "T", ".", "M", "F">>

ErrPlugin == "plugin failed"

ErrConflict == "conflict: both plugins tried to create file"

ErrMissingPoints == "missing insertion point(s)"

ErrWrite == "could not write"

\* an archive entry: the manifest the driver writes, or a generated file
Entry(kind, name) == [kind |-> kind, name |-> name]

\* codegen.go 289-318: the headers writeArchiveResult creates when nothing
\* fails
archiveEntries(includeManifest, files) ==
    (IF includeManifest THEN <<Entry("manifest", ManifestName)>> ELSE <<>>)
        \o [i \in 1..Cardinality(files) |-> Entry("generated", SortStrings(files)[i])]

\* codegen.go 195-199: the outputFile of a file a plugin emits
outputFile(lang, name) == [loc |-> em_locations[lang], fileName |-> name]

\* filepath.Join of an output directory and a relative name
Join(dir, name) == dir \o <<"/">> \o name

\* what a plugin returns: an error, or the files it created
PluginResults ==
    {[ok |-> FALSE, files |-> {}]}
        \cup {[ok |-> TRUE, files |-> S] : S \in {T \in SUBSET GeneratedNames : Cardinality(T) <= MaxOutputs}}

\* the state when computeOutputLocations has returned (codegen.go 74-77)
EmitInit ==
    /\ em_locations \in [EmitLangs -> EmitLocations]
    /\ em_plugins \in [EmitLangs -> PluginResults]
    /\ em_missing \in BOOLEAN
    /\ em_pc = "plugins"
    /\ em_order = <<>>
    /\ em_resps = {}
    /\ em_pending = {}
    /\ em_archiveResults = {}
    /\ em_files = {}
    /\ em_archives = {}
    /\ em_err = ""

\* the keys whose plugin was executed
Executed == {em_order[i] : i \in 1..Len(em_order)}

\* codegen.go 181-188: one turn of the loop of runPlugins, which returns at
\* the first plugin that fails
EmitExecutePlugin(lang) ==
    /\ em_pc = "plugins"
    /\ lang \notin Executed
    /\ em_order' = Append(em_order, lang)
    /\ IF ~em_plugins[lang].ok
       THEN /\ em_err' = ErrPlugin
            /\ em_pc' = "done"
            /\ UNCHANGED em_resps
       ELSE /\ em_resps' = em_resps \cup {[lang |-> lang, name |-> n] : n \in em_plugins[lang].files}
            /\ em_pc' = IF Executed \cup {lang} = EmitLangs THEN "assemble" ELSE "plugins"
            /\ UNCHANGED em_err
    /\ UNCHANGED <<em_locations, em_plugins, em_missing, em_pending, em_archiveResults,
                   em_files, em_archives>>
    /\ EmitFrame

\* two plugins created the same outputFile (codegen.go 201-204)
Conflict ==
    \E r1, r2 \in em_resps :
        r1.lang # r2.lang /\ outputFile(r1.lang, r1.name) = outputFile(r2.lang, r2.name)

\* the assembly always ends without error
AssemblyErrorNever == ""

\* codegen.go 192-234: the error of assembleFileOutputs
AssemblyError ==
    IF Conflict THEN ErrConflict ELSE IF em_missing THEN ErrMissingPoints ELSE ""

\* codegen.go 84-87: assembleFileOutputs and the test of its error
EmitAssemble ==
    /\ em_pc = "assemble"
    /\ IF AssemblyError # ""
       THEN /\ em_err' = AssemblyError
            /\ em_pc' = "done"
            /\ UNCHANGED em_pending
       ELSE /\ em_pending' = {outputFile(r.lang, r.name) : r \in em_resps}
            /\ em_pc' = "results"
            /\ UNCHANGED em_err
    /\ UNCHANGED <<em_locations, em_plugins, em_missing, em_order, em_resps,
                   em_archiveResults, em_files, em_archives>>
    /\ EmitFrame

\* codegen.go 92-106: one turn of the loop over results, in the order of the
\* map: a file of a directory is written (ok is whether writeFileResult
\* succeeds, which has opened the file when it fails in io.Copy), a file of
\* an archive is kept
EmitResult(ok) ==
    /\ em_pc = "results"
    /\ \E file \in em_pending :
           /\ em_pending' = em_pending \ {file}
           /\ IF file.loc.locationType = "dir"
              THEN /\ \E opened \in BOOLEAN :
                          /\ ok => opened
                          /\ em_files' = IF opened
                                         THEN em_files \cup {Join(file.loc.path, file.fileName)}
                                         ELSE em_files
                   /\ em_err' = IF ok THEN "" ELSE ErrWrite
                   /\ em_pc' = IF ok THEN "results" ELSE "done"
                   /\ UNCHANGED em_archiveResults
              ELSE /\ ok
                   /\ em_archiveResults' = em_archiveResults \cup {file}
                   /\ UNCHANGED <<em_files, em_err, em_pc>>
    /\ UNCHANGED <<em_locations, em_plugins, em_missing, em_order, em_resps, em_archives>>
    /\ EmitFrame

\* the archives that are written already
WrittenLocations == {a.loc : a \in em_archives}

\* codegen.go 109-113, 271-322: one turn of the loop over archiveResults, in
\* the order of the map: writeArchiveResult opens the archive and creates the
\* headers; when it fails (ok is false) it has created the first n of them
EmitArchive(ok) ==
    /\ em_pc = "results"
    /\ em_pending = {}
    /\ \E location \in {f.loc : f \in em_archiveResults} \ WrittenLocations :
           LET files == {f.fileName : f \in {g \in em_archiveResults : g.loc = location}}
               all   == archiveEntries(location.locationType = "jar", files)
           IN \E n \in 0..Len(all) :
                  /\ ok => n = Len(all)
                  /\ em_archives' = em_archives \cup
                         {[loc |-> location, entries |-> SubSeq(all, 1, n), complete |-> ok]}
    /\ em_err' = IF ok THEN "" ELSE ErrWrite
    /\ em_pc' = IF ok THEN "results" ELSE "done"
    /\ UNCHANGED <<em_locations, em_plugins, em_missing, em_order, em_resps, em_pending,
                   em_archiveResults, em_files>>
    /\ EmitFrame

\* codegen.go 115: every archive is written
EmitReturn ==
    /\ em_pc = "results"
    /\ em_pending = {}
    /\ {f.loc : f \in em_archiveResults} \ WrittenLocations = {}
    /\ em_pc' = "done"
    /\ UNCHANGED <<em_locations, em_plugins, em_missing, em_order, em_resps, em_pending,
                   em_archiveResults, em_files, em_archives, em_err>>
    /\ EmitFrame

EmitNext ==
    \/ \E lang \in EmitLangs : EmitExecutePlugin(lang)
    \/ EmitAssemble
    \/ \E ok \in BOOLEAN : EmitResult(ok)
    \/ \E ok \in BOOLEAN : EmitArchive(ok)
    \/ EmitReturn

\* ------------------------------------------------- the emission's claims

\* the names the plugins generated for a location
NamesFor(location) ==
    {r.name : r \in {q \in em_resps : em_locations[q.lang] = location}}

\* the generated entries of a sequence of entries
GeneratedOf(entries) ==
    {i \in 1..Len(entries) : entries[i].kind = "generated"}

\* C22: the entries of a zip or jar are the generated files in lexicographic
\* order of their names, each once, and in a jar one manifest entry stands
\* before them, whatever the order in which the plugins ran
C22_ArchiveEntriesSorted ==
    \A a \in em_archives :
        /\ a.loc.locationType \in {"zip", "jar"}
        /\ \A i, j \in GeneratedOf(a.entries) :
               i < j => Less(a.entries[i].name, a.entries[j].name)
        /\ \A i \in GeneratedOf(a.entries) : a.entries[i].name \in NamesFor(a.loc)
        /\ \A i \in 1..Len(a.entries) :
               a.entries[i].kind = "manifest" =>
                   (i = 1 /\ a.loc.locationType = "jar" /\ a.entries[i].name = ManifestName)
        /\ a.complete =>
               /\ {a.entries[i].name : i \in GeneratedOf(a.entries)} = NamesFor(a.loc)
               /\ a.loc.locationType = "jar" => (a.entries # <<>> /\ a.entries[1].kind = "manifest")

\* a jar was written with its manifest and the files of two plugins, of which
\* the one that ran first gave the name that is last in the archive
C22_Witness ==
    \E a \in em_archives :
        /\ a.complete
        /\ a.loc.locationType = "jar"
        /\ Len(a.entries) >= 4
        /\ Len(em_order) = 2
        /\ a.entries[Len(a.entries)].name \in em_plugins[em_order[1]].files
        /\ a.entries[2].name \in em_plugins[em_order[2]].files
        /\ a.entries[2].name \notin em_plugins[em_order[1]].files

\* a file or an archive is created, truncated or written
OutputTouched == em_files # {} \/ em_archives # {}

\* the plugins that were executed and failed
FailedPlugins == {l \in Executed : ~em_plugins[l].ok}

\* C29: an output file or archive is touched only after every requested
\* plugin has returned successfully and the assembly has ended without
\* error; when a plugin fails no further plugin is executed, and after a
\* failed plugin, a conflict or a missing insertion point no output is touched
C29_OutputsAfterAssembly ==
    /\ OutputTouched =>
           /\ Executed = EmitLangs
           /\ FailedPlugins = {}
           /\ ~Conflict
           /\ ~em_missing
    /\ \A l \in FailedPlugins : l = em_order[Len(em_order)] /\ em_pc = "done"
    /\ em_err \in {ErrPlugin, ErrConflict, ErrMissingPoints} =>
           (em_pc = "done" /\ ~OutputTouched)

\* both plugins returned files, two of which are the same file of one
\* directory: doCodeGen returned the conflict and wrote nothing
C29_Witness ==
    /\ em_pc = "done"
    /\ em_err = ErrConflict
    /\ Executed = EmitLangs
    /\ \A l \in EmitLangs : em_plugins[l].ok /\ em_plugins[l].files # {}
    /\ ~OutputTouched

\* ------------------------------------- plugins/reg.go: the plugin registries

\* how many calls of the registries and writes to returned maps are begun
MaxCalls == 4

\* the goroutines that call the registry
Goroutines == {1, 2}

\* the names plugins are registered under, and the plugins
RegNames == {"a", "b"}

RegPlugins == {"p", "q"}

\* the object that is pluginReg
RegistryObject == 0

NoCall == [op |-> "none", name |-> "", plugin |-> ""]

NoObject == -1

\* the map GetRegisteredPlugins returns is pluginReg itself
RetObjectAliased(g) == RegistryObject

\* reg.go 28: ret := map[string]Plugin{}, a new map for the call of g
RetObject(g) == g

\* the test always fails
AlreadyRegisteredNever(m, name) == FALSE

\* reg.go 20: _, ok := pluginReg[name]
AlreadyRegistered(m, name) == name \in DOMAIN m

\* reg.go 8-11 and codegen.go 351: empty registries, no goroutine in a call
RegInit ==
    /\ reg_heap = [o \in {RegistryObject} \cup Goroutines |-> <<>>]
    /\ pluginRegMu = 0
    /\ reg_pc = [g \in Goroutines |-> "idle"]
    /\ reg_call = [g \in Goroutines |-> NoCall]
    /\ reg_ret = [g \in Goroutines |-> NoObject]
    /\ reg_log = <<>>
    /\ reg_inprocess = <<>>
    /\ reg_inlog = <<>>
    /\ reg_calls = 0

\* a goroutine calls RegisterPlugin(name, plugin) (reg.go 17)
CallRegisterPlugin(g, name, plugin) ==
    /\ reg_pc[g] = "idle"
    /\ reg_calls < MaxCalls
    /\ reg_calls' = reg_calls + 1
    /\ reg_call' = [reg_call EXCEPT ![g] = [op |-> "register", name |-> name, plugin |-> plugin]]
    /\ reg_pc' = [reg_pc EXCEPT ![g] = "lock"]
    /\ UNCHANGED <<reg_heap, pluginRegMu, reg_ret, reg_log, reg_inprocess, reg_inlog>>
    /\ RegFrame

\* a goroutine calls GetRegisteredPlugins (reg.go 27-28)
CallGetRegisteredPlugins(g) ==
    /\ reg_pc[g] = "idle"
    /\ reg_calls < MaxCalls
    /\ reg_calls' = reg_calls + 1
    /\ reg_call' = [reg_call EXCEPT ![g] = [op |-> "get", name |-> "", plugin |-> ""]]
    /\ reg_heap' = [reg_heap EXCEPT ![RetObject(g)] = <<>>]
    /\ reg_ret' = [reg_ret EXCEPT ![g] = NoObject]
    /\ reg_pc' = [reg_pc EXCEPT ![g] = "lock"]
    /\ UNCHANGED <<pluginRegMu, reg_log, reg_inprocess, reg_inlog>>
    /\ RegFrame

\* reg.go 18, 29: pluginRegMu.Lock()
RegLock(g) ==
    /\ reg_pc[g] = "lock"
    /\ pluginRegMu = 0
    /\ pluginRegMu' = g
    /\ reg_pc' = [reg_pc EXCEPT ![g] = IF reg_call[g].op = "register" THEN "check" ELSE "copy"]
    /\ UNCHANGED <<reg_heap, reg_call, reg_ret, reg_log, reg_inprocess, reg_inlog, reg_calls>>
    /\ RegFrame

\* reg.go 20-22: the test, and the panic when the name is there
RegCheck(g) ==
    /\ reg_pc[g] = "check"
    /\ IF AlreadyRegistered(reg_heap[RegistryObject], reg_call[g].name)
       THEN /\ reg_log' = Append(reg_log, [name |-> reg_call[g].name,
                                           plugin |-> reg_call[g].plugin, panicked |-> TRUE])
            /\ reg_pc' = [reg_pc EXCEPT ![g] = "unlock"]
       ELSE /\ reg_pc' = [reg_pc EXCEPT ![g] = "store"]
            /\ UNCHANGED reg_log
    /\ UNCHANGED <<reg_heap, pluginRegMu, reg_call, reg_ret, reg_inprocess, reg_inlog, reg_calls>>
    /\ RegFrame

\* reg.go 23: pluginReg[name] = plugin
RegStore(g) ==
    /\ reg_pc[g] = "store"
    /\ reg_heap' = [reg_heap EXCEPT ![RegistryObject] = Put(@, reg_call[g].name, reg_call[g].plugin)]
    /\ reg_log' = Append(reg_log, [name |-> reg_call[g].name,
                                   plugin |-> reg_call[g].plugin, panicked |-> FALSE])
    /\ reg_pc' = [reg_pc EXCEPT ![g] = "unlock"]
    /\ UNCHANGED <<pluginRegMu, reg_call, reg_ret, reg_inprocess, reg_inlog, reg_calls>>
    /\ RegFrame

\* reg.go 31-33: the loop that copies pluginReg, under the mutex
RegCopy(g) ==
    /\ reg_pc[g] = "copy"
    /\ reg_heap' = [reg_heap EXCEPT ![RetObject(g)] =
                        [k \in DOMAIN @ \cup DOMAIN reg_heap[RegistryObject] |->
                            reg_heap[RegistryObject][k]]]
    /\ reg_ret' = [reg_ret EXCEPT ![g] = RetObject(g)]
    /\ reg_pc' = [reg_pc EXCEPT ![g] = "unlock"]
    /\ UNCHANGED <<pluginRegMu, reg_call, reg_log, reg_inprocess, reg_inlog, reg_calls>>
    /\ RegFrame

\* reg.go 19, 30: the deferred pluginRegMu.Unlock(), which also runs when the
\* call panics; the panic is the caller's to recover
RegUnlock(g) ==
    /\ reg_pc[g] = "unlock"
    /\ pluginRegMu' = 0
    /\ reg_pc' = [reg_pc EXCEPT ![g] = "idle"]
    /\ reg_call' = [reg_call EXCEPT ![g] = NoCall]
    /\ UNCHANGED <<reg_heap, reg_ret, reg_log, reg_inprocess, reg_inlog, reg_calls>>
    /\ RegFrame

\* the caller of GetRegisteredPlugins writes to the map it was given
ModifyReturnedMap(g, name, plugin) ==
    /\ reg_pc[g] = "idle"
    /\ reg_ret[g] # NoObject
    /\ Lookup(reg_heap[reg_ret[g]], name) # plugin
    /\ reg_calls < MaxCalls
    /\ reg_calls' = reg_calls + 1
    /\ reg_heap' = [reg_heap EXCEPT ![reg_ret[g]] = Put(@, name, plugin)]
    /\ UNCHANGED <<pluginRegMu, reg_pc, reg_call, reg_ret, reg_log, reg_inprocess, reg_inlog>>
    /\ RegFrame

\* codegen.go 344-349: goprotoc.RegisterPlugin, called during program
\* initialization from one goroutine
RegisterPlugin(lang, plugin) ==
    /\ reg_calls < MaxCalls
    /\ reg_calls' = reg_calls + 1
    /\ IF AlreadyRegistered(reg_inprocess, lang)
       THEN /\ reg_inlog' = Append(reg_inlog, [name |-> lang, plugin |-> plugin, panicked |-> TRUE])
            /\ UNCHANGED reg_inprocess
       ELSE /\ reg_inlog' = Append(reg_inlog, [name |-> lang, plugin |-> plugin, panicked |-> FALSE])
            /\ reg_inprocess' = Put(reg_inprocess, lang, plugin)
    /\ UNCHANGED <<reg_heap, pluginRegMu, reg_pc, reg_call, reg_ret, reg_log>>
    /\ RegFrame

RegNext ==
    \/ \E g \in Goroutines, name \in RegNames, plugin \in RegPlugins :
           CallRegisterPlugin(g, name, plugin)
    \/ \E g \in Goroutines : CallGetRegisteredPlugins(g)
    \/ \E g \in Goroutines : RegLock(g)
    \/ \E g \in Goroutines : RegCheck(g)
    \/ \E g \in Goroutines : RegStore(g)
    \/ \E g \in Goroutines : RegCopy(g)
    \/ \E g \in Goroutines : RegUnlock(g)
    \/ \E g \in Goroutines, name \in RegNames, plugin \in RegPlugins :
           ModifyReturnedMap(g, name, plugin)
    \/ \E lang \in RegNames, plugin \in RegPlugins : RegisterPlugin(lang, plugin)

\* ------------------------------------------------ the registries' claims

\* the registry a log of registrations leads to: every name with the plugin
\* of its first registration
FirstRegistrations(log) ==
    [n \in {log[i].name : i \in 1..Len(log)} |->
        log[CHOOSE i \in 1..Len(log) :
                log[i].name = n /\ \A j \in 1..(i - 1) : log[j].name # n].plugin]

\* a registration panicked when its name was registered before it, and only
\* then
PanicsOnSecond(log) ==
    \A i \in 1..Len(log) : log[i].panicked <=> \E j \in 1..(i - 1) : log[j].name = log[i].name

\* C23: a registry maps each name to the plugin of its first registration,
\* a registration of a name that is there panics and changes nothing,
\* registrations of distinct names are all recorded, for every interleaving
\* of the calls of the mutex-protected registry, and writing to a returned
\* map does not change the registry
C23_FirstRegistrationKept ==
    /\ reg_heap[RegistryObject] = FirstRegistrations(reg_log)
    /\ PanicsOnSecond(reg_log)
    /\ reg_inprocess = FirstRegistrations(reg_inlog)
    /\ PanicsOnSecond(reg_inlog)

\* two goroutines were in RegisterPlugin for one name at the same time, the
\* second one panicked, and a returned map was changed afterwards
C23_Witness ==
    /\ Len(reg_log) >= 2
    /\ reg_log[1].name = reg_log[2].name
    /\ reg_log[1].plugin # reg_log[2].plugin
    /\ reg_log[2].panicked
    /\ \E g \in Goroutines :
           /\ reg_ret[g] # NoObject
           /\ reg_heap[reg_ret[g]] # reg_heap[RegistryObject]
           /\ DOMAIN reg_heap[reg_ret[g]] = DOMAIN reg_heap[RegistryObject]

\* ------------------------------------------ codegen.go: driveProtocAsPlugin

\* how many arguments and how many files a request has at most
MaxReqArgs == 2

\* the arguments of a request: an option, the empty one, one with a dash
ReqArgs == {<<"x">>, <<>>, <<"-", "y">>}

\* the names of the files of a request; a descriptor may have no name
ReqFileNames == {<<"a", ".", "p", "r", "o", "t", "o">>, <<>>}

\* the calls of the system in driveProtocAsPlugin that may fail
DrvFaults == {"none", "MkdirTemp", "Mkdir", "WriteFile", "Run", "Walk", "RemoveAll"}

\* the paths in the temporary directory
TmpDir == <<"/", "t", "m", "p", "/", "g", "o", "-", "p", "r", "o", "t", "o", "c", "1">>

OutDir == Join(TmpDir, <<"o", "u", "t", "p", "u", "t">>)

DescFile == Join(TmpDir, <<"d", "e", "s", "c", "r", "i", "p", "t", "o", "r", "s">>)

\* the relative names of what protoc generates
ProtocFiles == {<<"A", ".", "j", "a", "v", "a">>, <<"B", ".", "j", "a", "v", "a">>}

ErrDash == "option for output does not start with '-'"

ErrSystem == "error of the system"

ErrEmptyArg == "request argument is empty"

ErrEmptyName == "request filename empty"

ErrProtoc == "protoc failed to produce output"

\* a return without the deferred function
AfterReturnNoDefer(created) == "returned"

\* codegen.go 383-388: a return runs the deferred function when the defer
\* statement was reached
AfterReturn(created) == IF created THEN "deferred" ELSE "returned"

DrvInit ==
    /\ drv_Args \in SeqsUpTo(ReqArgs, MaxReqArgs)
    /\ drv_Files \in SeqsUpTo(ReqFileNames, MaxReqArgs)
    /\ drv_fault \in DrvFaults
    /\ drv_generated \in SUBSET ProtocFiles
    /\ drv_pc = "start"
    /\ drv_fs = {}
    /\ drv_created = FALSE
    /\ drv_args = <<>>
    /\ drv_resp = {}
    /\ drv_err = ""

\* a return with err, from the step at hand
DrvReturn(err) ==
    /\ drv_err' = err
    /\ drv_pc' = AfterReturn(drv_created)

\* codegen.go 373-377: the test of the arguments
DrvCheckArgs ==
    /\ drv_pc = "start"
    /\ IF \E i \in 1..Len(drv_Args) : HasPrefix(drv_Args[i], <<"-">>)
       THEN DrvReturn(ErrDash)
       ELSE drv_pc' = "MkdirTemp" /\ UNCHANGED drv_err
    /\ UNCHANGED <<drv_Args, drv_Files, drv_fault, drv_generated, drv_fs, drv_created,
                   drv_args, drv_resp>>
    /\ DrvFrame

\* codegen.go 379-388: os.MkdirTemp, and the defer statement
DrvMkdirTemp ==
    /\ drv_pc = "MkdirTemp"
    /\ IF drv_fault = "MkdirTemp"
       THEN DrvReturn(ErrSystem) /\ UNCHANGED <<drv_fs, drv_created>>
       ELSE /\ drv_fs' = {TmpDir}
            /\ drv_created' = TRUE
            /\ drv_pc' = "Mkdir"
            /\ UNCHANGED drv_err
    /\ UNCHANGED <<drv_Args, drv_Files, drv_fault, drv_generated, drv_args, drv_resp>>
    /\ DrvFrame

\* codegen.go 390-393: os.Mkdir of the output directory
DrvMkdir ==
    /\ drv_pc = "Mkdir"
    /\ IF drv_fault = "Mkdir"
       THEN DrvReturn(ErrSystem) /\ UNCHANGED drv_fs
       ELSE /\ drv_fs' = drv_fs \cup {OutDir}
            /\ drv_pc' = "WriteFile"
            /\ UNCHANGED drv_err
    /\ UNCHANGED <<drv_Args, drv_Files, drv_fault, drv_generated, drv_created, drv_args, drv_resp>>
    /\ DrvFrame

\* codegen.go 395-401: the descriptors are written; os.WriteFile may have
\* created the file when it fails
DrvWriteFile ==
    /\ drv_pc = "WriteFile"
    /\ IF drv_fault = "WriteFile"
       THEN /\ DrvReturn(ErrSystem)
            /\ \E left \in BOOLEAN : drv_fs' = IF left THEN drv_fs \cup {DescFile} ELSE drv_fs
       ELSE /\ drv_fs' = drv_fs \cup {DescFile}
            /\ drv_pc' = "args"
            /\ UNCHANGED drv_err
    /\ UNCHANGED <<drv_Args, drv_Files, drv_fault, drv_generated, drv_created, drv_args, drv_resp>>
    /\ DrvFrame

\* codegen.go 403-419: the command line of protoc
DrvBuildArgs ==
    /\ drv_pc = "args"
    /\ IF \E i \in 1..Len(drv_Args) : drv_Args[i] = <<>>
       THEN DrvReturn(ErrEmptyArg) /\ UNCHANGED drv_args
       ELSE IF \E i \in 1..Len(drv_Files) : drv_Files[i] = <<>>
       THEN DrvReturn(ErrEmptyName) /\ UNCHANGED drv_args
       ELSE /\ drv_args' = <<<<"-", "-", "d", "e", "s", "c", "r", "i", "p", "t", "o", "r", "_", "s", "e", "t", "_", "i", "n", "=">> \o DescFile, <<"-", "-", "j", "a", "v", "a", "_", "o", "u", "t", "=">> \o OutDir>>
                               \o drv_Args \o drv_Files
            /\ drv_pc' = "Run"
            /\ UNCHANGED drv_err
    /\ UNCHANGED <<drv_Args, drv_Files, drv_fault, drv_generated, drv_fs, drv_created, drv_resp>>
    /\ DrvFrame

\* codegen.go 421-430: protoc runs; when it fails it may have written some of
\* its files
DrvRun ==
    /\ drv_pc = "Run"
    /\ IF drv_fault = "Run"
       THEN /\ DrvReturn(ErrProtoc)
            /\ \E some \in SUBSET drv_generated :
                   drv_fs' = drv_fs \cup {Join(OutDir, f) : f \in some}
       ELSE /\ drv_fs' = drv_fs \cup {Join(OutDir, f) : f \in drv_generated}
            /\ drv_pc' = "Walk"
            /\ UNCHANGED drv_err
    /\ UNCHANGED <<drv_Args, drv_Files, drv_fault, drv_generated, drv_created, drv_args, drv_resp>>
    /\ DrvFrame

\* codegen.go 432-453: filepath.Walk gives the regular files to resp; when it
\* fails some of them were given
DrvWalk ==
    /\ drv_pc = "Walk"
    /\ IF drv_fault = "Walk"
       THEN /\ DrvReturn(ErrSystem)
            /\ \E some \in SUBSET drv_generated : drv_resp' = some
       ELSE /\ drv_resp' = drv_generated
            /\ drv_err' = ""
            /\ drv_pc' = AfterReturn(drv_created)
    /\ UNCHANGED <<drv_Args, drv_Files, drv_fault, drv_generated, drv_fs, drv_created, drv_args>>
    /\ DrvFrame

\* codegen.go 383-388: the deferred function: os.RemoveAll, whose error is
\* returned when there is no other
DrvDeferred ==
    /\ drv_pc = "deferred"
    /\ IF drv_fault = "RemoveAll"
       THEN /\ \E left \in (SUBSET drv_fs) \ {{}} : drv_fs' = left
            /\ drv_err' = IF drv_err = "" THEN ErrSystem ELSE drv_err
       ELSE /\ drv_fs' = {}
            /\ UNCHANGED drv_err
    /\ drv_pc' = "returned"
    /\ UNCHANGED <<drv_Args, drv_Files, drv_fault, drv_generated, drv_created, drv_args, drv_resp>>
    /\ DrvFrame

DrvNext ==
    \/ DrvCheckArgs
    \/ DrvMkdirTemp
    \/ DrvMkdir
    \/ DrvWriteFile
    \/ DrvBuildArgs
    \/ DrvRun
    \/ DrvWalk
    \/ DrvDeferred

\* ------------------------------------------ driveProtocAsPlugin's claims

\* C24: when driveProtocAsPlugin has created its temporary directory and
\* returns, on the success path or with the error of a failed mkdir, of a
\* failed write of the descriptors, of an empty argument or file name, of
\* protoc or of the walk, the directory and everything in it is removed
C24_ScratchDirRemoved ==
    (drv_pc = "returned" /\ drv_created /\ drv_fault # "RemoveAll") => drv_fs = {}

\* protoc failed after it wrote a file into the temporary directory, and the
\* function has returned that error
C24_Witness ==
    /\ drv_pc = "returned"
    /\ drv_created
    /\ drv_fault = "Run"
    /\ drv_err = ErrProtoc
    /\ drv_generated # {}
    /\ drv_fs = {}

\* ------------------------------------------------- plugin/exec.go: RunPlugin

\* how many files the plugin function emits at most
MaxEmitted == 2

\* the names RunPlugin is called with
RpNames == {<<"p", "r", "o", "t", "o", "c", "-", "g", "e", "n", "-", "f", "o", "o">>, <<"f", "o", "o">>}

\* what the request on in is: unreadable, not a request, a request whose
\* descriptors cannot be processed, a request for a file that is not among
\* its descriptors, a good request
RpInputs == {"unreadable", "garbage", "bad descriptors", "unresolvable", "ok"}

\* the files a plugin may emit, and the messages of the errors it may return
RpFiles == {<<"a", ".", "g", "o">>, <<"b", ".", "g", "o">>, <<"c", ".", "g", "o">>}

RpMessages == {<<>>, <<"boom">>}

NoPluginRun == [files |-> {}, failed |-> FALSE, message |-> <<>>]

NoResponse == [error |-> <<>>, isError |-> FALSE, files |-> {}]

ErrMarshal == "proto: Marshal failed"

ErrShortWrite == "write failed"

\* exec.go 205-210: pluginName
pluginName(name) ==
    IF HasPrefix(name, PluginPrefix) THEN SliceFrom(name, Len(PluginPrefix)) ELSE name

\* the error response without the name
errResponseUnnamed(name, err) == [error |-> err, isError |-> TRUE, files |-> {}]

\* exec.go 176-180: errResponse
errResponse(name, err) == [error |-> name \o <<": ">> \o err, isError |-> TRUE, files |-> {}]

\* exec.go 115-174: runPlugin on a request that was decoded
runPlugin(name, plugin, input) ==
    IF input = "bad descriptors"
    THEN errResponse(name, <<"failed to process input descriptors: ", "<cause>">>)
    ELSE IF input = "unresolvable"
    THEN errResponse(name, <<"files to generate indicates unresolvable file: ", "<cause>">>)
    ELSE IF plugin.failed THEN errResponse(name, plugin.message)
    ELSE [error |-> <<>>, isError |-> FALSE, files |-> plugin.files]

RpInit ==
    /\ rp_name \in RpNames
    /\ rp_in \in RpInputs
    /\ rp_plugin \in {[files |-> f, failed |-> b, message |-> m] :
                         f \in {F \in SUBSET RpFiles : Cardinality(F) <= MaxEmitted},
                         b \in BOOLEAN, m \in RpMessages}
    /\ rp_marshal \in 0..2
    /\ rp_write \in BOOLEAN
    /\ rp_pc = "read"
    /\ rp_respb = NoResponse
    /\ rp_out = <<>>
    /\ rp_ret = ""

\* exec.go 104-111: the request is read and decoded
RpRead ==
    /\ rp_pc = "read"
    /\ IF rp_in \in {"unreadable", "garbage"}
       THEN /\ rp_respb' = errResponse(pluginName(rp_name),
                                       <<"failed to read code gen request: ", "<cause>">>)
            /\ rp_pc' = "finish"
       ELSE /\ rp_pc' = "run"
            /\ UNCHANGED rp_respb
    /\ UNCHANGED <<rp_name, rp_in, rp_plugin, rp_marshal, rp_write, rp_out, rp_ret>>
    /\ RpFrame

\* exec.go 112: runPlugin
RpRun ==
    /\ rp_pc = "run"
    /\ rp_respb' = runPlugin(pluginName(rp_name), rp_plugin, rp_in)
    /\ rp_pc' = "finish"
    /\ UNCHANGED <<rp_name, rp_in, rp_plugin, rp_marshal, rp_write, rp_out, rp_ret>>
    /\ RpFrame

\* exec.go 90-102: finish: the response is marshalled, an error response in
\* its place when that fails, and written
RpFinish ==
    /\ rp_pc = "finish"
    /\ LET respb == IF rp_marshal = 0 THEN rp_respb
                    ELSE errResponse(pluginName(rp_name),
                                     <<"failed to write code gen response: ", ErrMarshal>>)
       IN IF rp_marshal = 2
          THEN rp_ret' = ErrMarshal /\ UNCHANGED rp_out
          ELSE IF rp_write
          THEN rp_out' = Append(rp_out, respb) /\ rp_ret' = ""
          ELSE rp_ret' = ErrShortWrite /\ UNCHANGED rp_out
    /\ rp_pc' = "done"
    /\ UNCHANGED <<rp_name, rp_in, rp_plugin, rp_marshal, rp_write, rp_respb>>
    /\ RpFrame

RpNext ==
    \/ RpRead
    \/ RpRun
    \/ RpFinish

\* ------------------------------------------------------ RunPlugin's claims

\* the name errors are reported with
ReportedName == IF rp_name = <<"p", "r", "o", "t", "o", "c", "-", "g", "e", "n", "-", "f", "o", "o">> THEN <<"f", "o", "o">> ELSE rp_name

\* the request could not be read or decoded, its descriptors could not be
\* processed, or the plugin function returned an error
RequestOrPluginFailed ==
    \/ rp_in \in {"unreadable", "garbage", "bad descriptors"}
    \/ rp_in = "ok" /\ rp_plugin.failed

\* the message of that failure
FailureMessage ==
    IF rp_in \in {"unreadable", "garbage"} THEN <<"failed to read code gen request: ", "<cause>">>
    ELSE IF rp_in = "bad descriptors" THEN <<"failed to process input descriptors: ", "<cause>">>
    ELSE rp_plugin.message

\* C25: RunPlugin returns an error only when the response cannot be
\* marshalled or written; when the request cannot be read or decoded, the
\* descriptors cannot be processed or the plugin function fails, the response
\* it writes has the error <name>: <message> and no files, and nil is
\* returned
C25_ErrorsReportedInResponse ==
    rp_pc = "done" =>
        /\ rp_ret # "" => (rp_marshal = 2 \/ ~rp_write)
        /\ (rp_marshal < 2 /\ rp_write) => (rp_ret = "" /\ Len(rp_out) = 1)
        /\ (RequestOrPluginFailed /\ rp_marshal = 0 /\ rp_write) =>
               /\ rp_out[1].isError
               /\ rp_out[1].error = ReportedName \o <<": ">> \o FailureMessage
               /\ rp_out[1].files = {}

\* the plugin function emitted files and then returned an error, and the
\* response was written with that error
C25_Witness ==
    /\ rp_pc = "done"
    /\ rp_in = "ok"
    /\ rp_plugin.failed
    /\ rp_plugin.files # {}
    /\ rp_name = <<"p", "r", "o", "t", "o", "c", "-", "g", "e", "n", "-", "f", "o", "o">>
    /\ rp_ret = ""
    /\ Len(rp_out) = 1
    /\ rp_out[1].error = <<"f", "o", "o">> \o <<": ", "boom">>

\* ------------------------------------- the splicer on files with insertions

\* how many insertions the plugins emit after the file is created
MaxInsertions == 2

\* a name of which the code takes `extra` as the point when spaces stand
\* before the marker
LongNameIndented == PointExtra \o [i \in 1..(Len(insertionPointMarker) + 2) |-> "_"]

\* the files the insertions go into: the marker at the start of a line, with
\* a short and a long name; the marker behind two spaces; two markers of
\* one name
BodyIndented == <<" ", " ">> \o MarkerText(PointExtra) \o NL

BodyIndentedLongName == <<" ", " ">> \o MarkerText(LongNameIndented) \o NL

BodyTwice == MarkerText(PointExtra) \o NL \o MarkerText(PointExtra) \o NL

BodyLongNameTwice == MarkerText(LongName) \o NL \o MarkerText(LongName) \o NL

SpliceBodies ==
    {BodyBare, BodyLongName, BodyIndented, BodyIndentedLongName, BodyTwice, BodyLongNameTwice}

\* the inserted contents: one line, one line without its newline, two lines
SplicePayloads == {<<"1", "\n">>, <<"2">>, <<"7", "\n", "8", "\n">>}

\* the plugins that insert
SpliceLangs == {"a", "b"}

\* plugin a has created foo.txt; all plugins write to one location
SpliceInit ==
    /\ locations \in {[l \in Langs |-> loc] : loc \in Locs}
    /\ \E body \in SpliceBodies :
           output = [l \in Langs |->
                        IF l = "a"
                        THEN addSnippet(<<>>, "a", PrimaryKey("foo.txt"), body)
                        ELSE <<>>]
    /\ snippets = 0
    /\ asm_pc = "gen"
    /\ cur = NoLang
    /\ visited = {}
    /\ results = <<>>
    /\ asm_out = NoOutcome

\* part_007 135-139: OutputSnippet with an insertion point
SpliceSnippet(lang, point, contents) ==
    OutputSnippetUpTo(MaxInsertions, lang, [name |-> "foo.txt", insertionPoint |-> point],
                      contents)

SpliceNext ==
    \/ \E l \in SpliceLangs, p \in Points, c \in SplicePayloads : SpliceSnippet(l, p, c)
    \/ \E l \in Langs, k \in Keys : AssembleVisit(l, k)
    \/ AssembleFinish

\* ------------------------------------------------- the splicer's claims

\* the file foo.txt as plugin a created it, and as it was assembled
Original == output["a"][PrimaryKey("foo.txt")][1].contents

AssembledFile == asm_out.files[OutFile("a", "foo.txt")]

\* the first line of an inserted content
FirstLine(c) == SplitLines(c)[1]

\* the first lines of the contents cs are found in data one after the other,
\* from offset from on
RECURSIVE InOrder(_, _, _)
InOrder(data, from, cs) ==
    IF cs = <<>> THEN TRUE
    ELSE LET i == Index(SliceFrom(data, from), FirstLine(Head(cs)))
         IN i >= 0 /\ InOrder(data, from + i + Len(FirstLine(Head(cs))), Tail(cs))

MarkerIndent(body) ==
    LET line == Slice(body, LastIndexByte(Slice(body, 0, Index(body, insertionPointMarker)), "\n") + 1,
                      Index(body, insertionPointMarker))
    IN Slice(line, 0, LeadingSpace(line))

\* the lines of a content, without the empty piece behind a last newline
LinesOf(c) ==
    LET pieces == SplitLines(c)
    IN IF pieces[Len(pieces)] = <<>> THEN SubSeq(pieces, 1, Len(pieces) - 1) ELSE pieces

\* the insertions the plugins emitted: plugin, key and position in the key's list
Emitted ==
    UNION {UNION {{<<l, k, i>> : i \in 1..Len(output[l][k])}
                  : k \in {k \in DOMAIN output[l] : k.insertionPoint # <<>>}}
           : l \in SpliceLangs}

\* the number of lines of the emitted insertions in E
RECURSIVE SumLines(_)
SumLines(E) ==
    IF E = {} THEN 0
    ELSE LET e == CHOOSE e \in E : TRUE
         IN Len(LinesOf(output[e[1]][e[2]][e[3]].contents)) + SumLines(E \ {e})

\* how often the byte b stands in data
CountByte(data, b) == Cardinality({i \in 1..Len(data) : data[i] = b})

\* the number of complete lines before the first marker of data
LinesBeforeMarker(data) ==
    CountByte(Slice(data, 0, Index(data, insertionPointMarker)), "\n")

\* C27: when the marker line begins with white space W and is no block
\* comment, every line of an inserted content stands in the assembled file at
\* the start of a line behind W, and a content of k lines gives k lines
\* before the marker line
C27_IndentedLinesKept ==
    (asm_pc = "done" /\ asm_out.kind = "ok" /\ MarkerIndent(Original) # <<>>) =>
        /\ \A e \in Emitted :
               LET lines == LinesOf(output[e[1]][e[2]][e[3]].contents)
               IN \A i \in 1..Len(lines) :
                      Index(NL \o AssembledFile, NL \o MarkerIndent(Original) \o lines[i]) >= 0
        /\ LinesBeforeMarker(AssembledFile) = LinesBeforeMarker(Original) + SumLines(Emitted)

\* the points for which the plugins emitted insertions
EmittedPoints == {e[2].insertionPoint : e \in Emitted}

\* the start of the line of the first marker of point P in body
FirstMarkerLine(body, P) ==
    LastIndexByte(Slice(body, 0, Index(body, MarkerText(P))), "\n") + 1

\* C28: with insertions for one name, whose marker is in the file, the file
\* is assembled, the insertions are spliced before the first marker of that
\* name only, and everything else of the file, later markers of the name
\* included, is copied as it is
C28_ConsumedOnce ==
    (/\ asm_pc = "done"
     /\ Cardinality(EmittedPoints) = 1
     /\ \A P \in EmittedPoints : Index(Original, MarkerText(P)) >= 0)
    => /\ asm_out.kind = "ok"
       /\ \A P \in EmittedPoints :
              /\ Slice(AssembledFile, 0, FirstMarkerLine(Original, P))
                     = Slice(Original, 0, FirstMarkerLine(Original, P))
              /\ HasSuffix(AssembledFile, SliceFrom(Original, FirstMarkerLine(Original, P)))

\* ------------------------------------------------------ specifications

AsmIdle ==
    /\ locations = <<>>
    /\ output = <<>>
    /\ snippets = 0
    /\ asm_pc = "idle"
    /\ cur = NoLang
    /\ visited = {}
    /\ results = <<>>
    /\ asm_out = NoOutcome

RunIdle ==
    /\ outputs = <<>>
    /\ pluginDefs = <<>>
    /\ inprocessPlugins = {}
    /\ fs_kind = <<>>
    /\ run_pc = "idle"
    /\ run_args = <<>>
    /\ run_locs = <<>>
    /\ req_Args = <<>>
    /\ invocations = <<>>
    /\ received = <<>>
    /\ failure = NoFailure
    /\ run_err = NoMessage
    /\ run_created = {}

ReqIdle ==
    /\ imports = <<>>
    /\ reqFiles = <<>>
    /\ pb_plugins = NoRequest
    /\ pb_plugin = NoRequest

FlagsIdle ==
    /\ cmdline = <<>>
    /\ fs_files = <<>>
    /\ pf_pc = "idle"
    /\ opts = ZeroOptions
    /\ sourcesSeen = {}
    /\ stdout = <<>>
    /\ pf_err = NoFlagErr

ModeIdle ==
    /\ mode_pc = "idle"
    /\ executed = {}
    /\ stdin_read = FALSE
    /\ plugins_ran = FALSE
    /\ written = {}
    /\ mode_err = ""
    /\ has_src_info = FALSE
    /\ stripped = FALSE
    /\ req_from_stripped = FALSE

DescIdle ==
    /\ descSets = <<>>
    /\ inputProtoFiles = <<>>
    /\ desc_pc = "idle"
    /\ loaded = NotLoaded
    /\ includeImports = FALSE
    /\ fdSet = <<>>

RawIdle ==
    /\ buf = <<>>
    /\ cb_index = 0
    /\ raw_pc = "idle"
    /\ varint = NoVarint
    /\ raw = NoRaw

FreeIdle ==
    /\ md = NoMessageDescriptor
    /\ free_pc = "idle"
    /\ used = <<>>
    /\ unused = <<>>

EmitIdle ==
    /\ em_locations = <<>>
    /\ em_plugins = <<>>
    /\ em_missing = FALSE
    /\ em_pc = "idle"
    /\ em_order = <<>>
    /\ em_resps = {}
    /\ em_pending = {}
    /\ em_archiveResults = {}
    /\ em_files = {}
    /\ em_archives = {}
    /\ em_err = ""

RegIdle ==
    /\ reg_heap = <<>>
    /\ pluginRegMu = 0
    /\ reg_pc = <<>>
    /\ reg_call = <<>>
    /\ reg_ret = <<>>
    /\ reg_log = <<>>
    /\ reg_inprocess = <<>>
    /\ reg_inlog = <<>>
    /\ reg_calls = 0

DrvIdle ==
    /\ drv_Args = <<>>
    /\ drv_Files = <<>>
    /\ drv_fault = "none"
    /\ drv_generated = {}
    /\ drv_pc = "idle"
    /\ drv_fs = {}
    /\ drv_created = FALSE
    /\ drv_args = <<>>
    /\ drv_resp = {}
    /\ drv_err = ""

RpIdle ==
    /\ rp_name = <<>>
    /\ rp_in = "ok"
    /\ rp_plugin = NoPluginRun
    /\ rp_marshal = 0
    /\ rp_write = TRUE
    /\ rp_pc = "idle"
    /\ rp_respb = NoResponse
    /\ rp_out = <<>>
    /\ rp_ret = ""

InitAsm == AsmInit /\ RunIdle /\ ReqIdle /\ FlagsIdle /\ ModeIdle /\ DescIdle /\ RawIdle /\ FreeIdle /\ EmitIdle /\ RegIdle /\ DrvIdle /\ RpIdle

InitSplice == SpliceInit /\ RunIdle /\ ReqIdle /\ FlagsIdle /\ ModeIdle /\ DescIdle /\ RawIdle /\ FreeIdle /\ EmitIdle /\ RegIdle /\ DrvIdle /\ RpIdle

InitRun == RunInit /\ AsmIdle /\ ReqIdle /\ FlagsIdle /\ ModeIdle /\ DescIdle /\ RawIdle /\ FreeIdle /\ EmitIdle /\ RegIdle /\ DrvIdle /\ RpIdle

InitReq == ReqInit /\ AsmIdle /\ RunIdle /\ FlagsIdle /\ ModeIdle /\ DescIdle /\ RawIdle /\ FreeIdle /\ EmitIdle /\ RegIdle /\ DrvIdle /\ RpIdle

InitFlags == FlagsInit /\ AsmIdle /\ RunIdle /\ ReqIdle /\ ModeIdle /\ DescIdle /\ RawIdle /\ FreeIdle /\ EmitIdle /\ RegIdle /\ DrvIdle /\ RpIdle

InitMode == ModeInit /\ AsmIdle /\ RunIdle /\ ReqIdle /\ DescIdle /\ RawIdle /\ FreeIdle /\ EmitIdle /\ RegIdle /\ DrvIdle /\ RpIdle

InitDesc == DescInit /\ AsmIdle /\ RunIdle /\ ReqIdle /\ FlagsIdle /\ ModeIdle /\ RawIdle /\ FreeIdle /\ EmitIdle /\ RegIdle /\ DrvIdle /\ RpIdle

InitVarint == VarintInit /\ AsmIdle /\ RunIdle /\ ReqIdle /\ FlagsIdle /\ ModeIdle /\ DescIdle /\ FreeIdle /\ EmitIdle /\ RegIdle /\ DrvIdle /\ RpIdle

InitRaw == RawInit /\ AsmIdle /\ RunIdle /\ ReqIdle /\ FlagsIdle /\ ModeIdle /\ DescIdle /\ FreeIdle /\ EmitIdle /\ RegIdle /\ DrvIdle /\ RpIdle

InitFree == FreeInit /\ AsmIdle /\ RunIdle /\ ReqIdle /\ FlagsIdle /\ ModeIdle /\ DescIdle /\ RawIdle /\ EmitIdle /\ RegIdle /\ DrvIdle /\ RpIdle

InitEmit == EmitInit /\ AsmIdle /\ RunIdle /\ ReqIdle /\ FlagsIdle /\ ModeIdle /\ DescIdle /\ RawIdle /\ FreeIdle /\ RegIdle /\ DrvIdle /\ RpIdle

InitReg == RegInit /\ AsmIdle /\ RunIdle /\ ReqIdle /\ FlagsIdle /\ ModeIdle /\ DescIdle /\ RawIdle /\ FreeIdle /\ EmitIdle /\ DrvIdle /\ RpIdle

InitDrv == DrvInit /\ AsmIdle /\ RunIdle /\ ReqIdle /\ FlagsIdle /\ ModeIdle /\ DescIdle /\ RawIdle /\ FreeIdle /\ EmitIdle /\ RegIdle /\ RpIdle

InitRp == RpInit /\ AsmIdle /\ RunIdle /\ ReqIdle /\ FlagsIdle /\ ModeIdle /\ DescIdle /\ RawIdle /\ FreeIdle /\ EmitIdle /\ RegIdle /\ DrvIdle

\* the assembler, fed by plugins that write their outputs
SpecAsm == InitAsm /\ [][AsmNext]_vars

\* insertions into a file that a plugin has created
SpecSplice == InitSplice /\ [][SpliceNext]_vars

\* doCodeGen up to the return of runPlugins
SpecRun == InitRun /\ [][RunNext]_vars

\* the two builders of the request sent to a plugin
SpecReq == InitReq /\ [][ReqNext]_vars

\* run up to the return of parseFlags
SpecFlags == InitFlags /\ [][FlagsNext]_vars

\* run from the return of parseFlags on
SpecMode == InitMode /\ [][ModeNext]_vars

\* loadDescriptors, then saveDescriptor on what it returned
SpecDesc == InitDesc /\ [][DescNext]_vars

\* a call of decodeVarint
SpecVarint == InitVarint /\ [][VarintNext]_vars

\* doDecodeRaw on the bytes of stdin
SpecRaw == InitRaw /\ [][RawNext]_vars

\* computeFreeRanges on a message
SpecFree == InitFree /\ [][FreeNext]_vars

\* doCodeGen from the plugins to the emission of files and archives
SpecEmit == InitEmit /\ [][EmitNext]_vars

\* calls of the plugin registries from two goroutines
SpecReg == InitReg /\ [][RegNext]_vars

\* a call of driveProtocAsPlugin
SpecDrv == InitDrv /\ [][DrvNext]_vars

\* a call of plugins.RunPlugin
SpecRp == InitRp /\ [][RpNext]_vars


====
